---------------------------- MODULE Spec2Model ----------------------------
(***************************************************************************)
(* Model of the retrieval subsystem of the repository question-answering   *)
(* backend: the line chunker, the dependency-graph builder, the embedding  *)
(* index cache (save / load) and the retrieval funnel.                     *)
(*                                                                         *)
(* Strings whose characters matter (file lines, chunk texts, paths, module *)
(* names) are sequences of one-character strings, so that strip, endswith, *)
(* replace and substring tests are computed and not assumed.               *)
(***************************************************************************)
EXTENDS Integers, Sequences, FiniteSets, TLC

VARIABLES
    \* ---- chunker (services/retrieval.py, _chunk_lines) ----
    CHUNK_LINE_SIZE,   \* module configuration, read from the environment
    CHUNK_OVERLAP,     \* module configuration, read from the environment
    lines,             \* the argument of _chunk_lines: the file's lines
    start,             \* local variable `start` of _chunk_lines
    out,               \* the (start_line, end_line, text) triples yielded so far
    cpc,               \* position of the generator: "loop" or "done"
    \* ---- dependency graph (services/graph.py) ----
    fs,                \* the repository tree: path -> file, or NoFile
    GRAPH_CACHE,       \* _GRAPH_CACHE: repository root -> adjacency list
    relQuery,          \* the file_path of the last get_related_files call
    relResult,         \* the list that call returned
    \* ---- retrieval (services/retrieval.py) ----
    idx,               \* the RetrievalIndex the caller holds
    MODEL,             \* _MODEL is loaded
    RANKER,            \* _RANKER is loaded
    chromadb,          \* the chromadb module could be imported
    store,             \* the external store: collection name -> (id -> vector)
    ret,               \* the outcome of the last retrieve call
    \* ---- index cache (services/retrieval.py) ----
    disk,              \* the files of the cache directory: path -> content
    cacheLog,          \* the last two save_index / load_index calls
    \* ---- provenance validator (services/chat.py) ----
    response,          \* the generated text handed to _validate_mermaid
    valid_filenames,   \* the paths found in the context
    answer,            \* what _validate_mermaid returned
    \* ---- chunk build (services/retrieval.py) ----
    unstatable,        \* the files whose stat raises OSError
    buildOut,           \* the outcome of the last build_chunks call
    \* ---- editor (services/editor.py, main.py) ----
    efs,               \* the file system: path -> directory, file or symbolic link
    current_repo,      \* APP_STATE["current_repo"]
    applyOut,          \* the outcome of the last /apply request
    \* ---- lazily initialised handles under concurrent requests ----
    memo,              \* the process-wide handles: _MODEL, _RANKER, _GRAPH_CACHE[root] (0: not set)
    nmade,            \* how many objects have been constructed for each handle
    thr,               \* each request thread: where it is, the handle it is after, the object it holds
    given,             \* the objects the callers were given, by handle
    \* ---- the /ingest endpoint (main.py) ----
    current_repo_content, \* APP_STATE["current_repo_content"]
    current_repo_url,  \* APP_STATE["current_repo_url"]
    clones,            \* the directories clone_repo has made, with the URL cloned and the text repomix packed
    ingest,            \* each /ingest request thread: where it is and its locals
    \* ---- the chat endpoint (routers/chat.py, services/chat.py) ----
    snippets,          \* the chunks retrieve returned to the chat endpoint
    context            \* the text format_chunks made of them

chunkVars == <<CHUNK_LINE_SIZE, CHUNK_OVERLAP, lines, start, out, cpc>>
graphVars == <<fs, GRAPH_CACHE, relQuery, relResult>>

retrVars == <<idx, MODEL, RANKER, chromadb, store, ret>>

cacheVars == <<disk, cacheLog>>

valVars == <<response, valid_filenames, answer>>

buildVars == <<unstatable, buildOut>>

editVars == <<efs, current_repo, applyOut>>

lazyVars == <<memo, nmade, thr, given>>

ingestVars == <<current_repo_content, current_repo_url, clones, ingest>>

chatVars == <<snippets, context>>

vars == <<chunkVars, graphVars, retrVars, cacheVars, valVars, buildVars, editVars, lazyVars, ingestVars, chatVars>>

-----------------------------------------------------------------------------
(* The state of a component that a specification leaves alone *)

ChunkerIdle ==
    /\ CHUNK_LINE_SIZE = 200
    /\ CHUNK_OVERLAP = 40
    /\ lines = <<>>
    /\ start = 0
    /\ out = <<>>
    /\ cpc = "done"

GraphIdle ==
    /\ fs = <<>>
    /\ GRAPH_CACHE = <<>>
    /\ relQuery = <<>>
    /\ relResult = <<>>

RetrieveIdle ==
    /\ idx = [chunks |-> <<>>, embeddings |-> [shape |-> <<0, 0>>, data |-> <<>>],
              collection_name |-> "None", collection_path |-> "None"]
    /\ MODEL = FALSE
    /\ RANKER = FALSE
    /\ chromadb = FALSE
    /\ store = <<>>
    /\ ret = [status |-> "none"]

CacheIdle ==
    /\ disk = <<>>
    /\ cacheLog = <<>>

ValidateIdle ==
    /\ response = <<>>
    /\ valid_filenames = {}
    /\ answer = [status |-> "none"]

BuildIdle ==
    /\ unstatable = {}
    /\ buildOut = [status |-> "none"]

EditIdle ==
    /\ efs = <<>>
    /\ current_repo = <<>>
    /\ applyOut = [status |-> 0]

LazyIdle ==
    /\ memo = <<>>
    /\ nmade = <<>>
    /\ thr = <<>>
    /\ given = {}

IngestIdle ==
    /\ current_repo_content = <<>>
    /\ current_repo_url = <<>>
    /\ clones = <<>>
    /\ ingest = <<>>

ChatIdle ==
    /\ snippets = <<>>
    /\ context = [status |-> "none"]

-----------------------------------------------------------------------------
(* Bounds *)

MaxFileLen == 5        \* longest file, in lines
MinCfg == 0 - 1        \* smallest configured integer tried
MaxCfg == 3            \* largest configured integer tried
MaxFiles == 2          \* files in the repository tree
MaxImports == 2        \* import lines in the whole repository
MaxChunks == 2         \* chunks in an index
MaxTopK == 1           \* largest top_k tried
MaxSegs == 4           \* pieces in a generated text
MaxObjects == 2        \* objects constructed for one handle
MaxBuilds == 2         \* builds of the index of one repository
MaxRequests == 3       \* /ingest requests that reach clone_repo
MaxSnippets == 2       \* chunks handed to format_chunks

-----------------------------------------------------------------------------
(* Generic helpers *)

Min(a, b) == IF a <= b THEN a ELSE b
Max(a, b) == IF a >= b THEN a ELSE b

RECURSIVE Flatten(_)
\* "".join(list of strings)
Flatten(ss) == IF ss = <<>> THEN <<>> ELSE Head(ss) \o Flatten(Tail(ss))

\* Python's normalisation of one slice bound against a sequence of length n
PyBound(i, n) == IF i < 0 THEN Max(i + n, 0) ELSE Min(i, n)

\* Python's seq[a:b]
PySlice(s, a, b) ==
    LET lo == PyBound(a, Len(s))
        hi == PyBound(b, Len(s))
    IN  IF lo >= hi THEN <<>> ELSE SubSeq(s, lo + 1, hi)

IsSpace(c) == c \in {" ", "\n"}

RECURSIVE LStrip(_)
LStrip(s) == IF s # <<>> /\ IsSpace(Head(s)) THEN LStrip(Tail(s)) ELSE s

RECURSIVE RStrip(_)
RStrip(s) ==
    IF s # <<>> /\ IsSpace(s[Len(s)]) THEN RStrip(SubSeq(s, 1, Len(s) - 1)) ELSE s

\* str.strip()
Strip(s) == RStrip(LStrip(s))

-----------------------------------------------------------------------------
(* Chunker: _chunk_lines *)

\* the lines a file is made of (each as splitlines(keepends=True) gives it)
LineSet == { <<"\n">>, <<" ", "\n">>, <<"x", "\n">> }

RECURSIVE SeqsUpTo(_, _)
SeqsUpTo(S, n) ==
    IF n = 0 THEN { <<>> }
    ELSE LET shorter == SeqsUpTo(S, n - 1)
         IN  shorter \cup { Append(s, x) : s \in { t \in shorter : Len(t) = n - 1 }, x \in S }

total == Len(lines)

\* end = min(start + CHUNK_LINE_SIZE, total)
WindowEnd(s) == Min(s + CHUNK_LINE_SIZE, total)

\* chunk_text = "".join(lines[start:end]).strip()
ChunkText(s, e) == Strip(Flatten(PySlice(lines, s, e)))

\* mutant: the next window starts one line too late
NextStartSkipsLine(e) == Max(e - CHUNK_OVERLAP, 0) + 1

\* start = max(end - CHUNK_OVERLAP, 0)
NextStart(e) == Max(e - CHUNK_OVERLAP, 0)

\* mutant: the 0-based start is yielded as the start line
YieldedZeroBased(s, e) == [start_line |-> s, end_line |-> e, text |-> ChunkText(s, e)]

\* the value yielded: start + 1, end, chunk_text
Yielded(s, e) == [start_line |-> s + 1, end_line |-> e, text |-> ChunkText(s, e)]

MaxYield == MaxFileLen + 1   \* the model stops a generator that has yielded this often

ChunkerInit ==
    /\ ChatIdle
    /\ IngestIdle
    /\ LazyIdle
    /\ EditIdle
    /\ BuildIdle
    /\ ValidateIdle
    /\ GraphIdle
    /\ RetrieveIdle
    /\ CacheIdle
    /\ CHUNK_LINE_SIZE \in MinCfg..MaxCfg
    /\ CHUNK_OVERLAP \in MinCfg..MaxCfg
    /\ lines \in SeqsUpTo(LineSet, MaxFileLen)
    /\ start = 0
    /\ out = <<>>
    /\ cpc = "loop"

\* one iteration of `while start < total`
ChunkIter ==
    /\ cpc = "loop"
    /\ start < total
    /\ Len(out) < MaxYield
    /\ LET e == WindowEnd(start)
       IN  /\ out' = IF ChunkText(start, e) # <<>>
                     THEN Append(out, Yielded(start, e))
                     ELSE out
           /\ IF e = total
              THEN cpc' = "done" /\ start' = start
              ELSE cpc' = "loop" /\ start' = NextStart(e)
    /\ UNCHANGED <<CHUNK_LINE_SIZE, CHUNK_OVERLAP, lines>>
    /\ UNCHANGED <<graphVars, retrVars, cacheVars, valVars, buildVars, editVars, lazyVars, ingestVars, chatVars>>

\* the loop condition fails
ChunkExit ==
    /\ cpc = "loop"
    /\ ~(start < total)
    /\ cpc' = "done"
    /\ UNCHANGED <<CHUNK_LINE_SIZE, CHUNK_OVERLAP, lines, start, out>>
    /\ UNCHANGED <<graphVars, retrVars, cacheVars, valVars, buildVars, editVars, lazyVars, ingestVars, chatVars>>

NextChunker == ChunkIter \/ ChunkExit

SpecChunker == ChunkerInit /\ [][NextChunker]_vars

-----------------------------------------------------------------------------
(* String helpers (strings are sequences of characters) *)

StartsWith(s, pre) == Len(pre) <= Len(s) /\ SubSeq(s, 1, Len(pre)) = pre

EndsWith(s, suf) == Len(suf) <= Len(s) /\ SubSeq(s, Len(s) - Len(suf) + 1, Len(s)) = suf

\* `sub in s`
Contains(s, sub) == \E i \in 1..(Len(s) - Len(sub) + 1) : SubSeq(s, i, i + Len(sub) - 1) = sub

\* s.replace(a, b) for single characters a and b
ReplaceChar(s, a, b) == [i \in DOMAIN s |-> IF s[i] = a THEN b ELSE s[i]]

\* position of the last occurrence of character c in s, 0 when there is none
LastIndexOf(s, c) ==
    LET hits == { i \in DOMAIN s : s[i] = c }
    IN  IF hits = {} THEN 0 ELSE CHOOSE i \in hits : \A j \in hits : j <= i

\* the final path segment (the `file` of os.walk, Path.name)
Basename(p) == SubSeq(p, LastIndexOf(p, "/") + 1, Len(p))

\* the directory part of a relative path, "" for a file of the root
Dirname(p) == SubSeq(p, 1, LastIndexOf(p, "/") - 1)

\* Path.suffix: from the last dot of the name, unless the name starts with it
Suffix(p) ==
    LET name == Basename(p)
        dot == LastIndexOf(name, ".")
    IN  IF dot <= 1 THEN <<>> ELSE SubSeq(name, dot, Len(name))

RECURSIVE Perms(_)
\* all orderings of a finite set
Perms(S) ==
    IF S = {} THEN { <<>> }
    ELSE UNION { { <<x>> \o t : t \in Perms(S \ {x}) } : x \in S }

Range(f) == { f[i] : i \in DOMAIN f }

-----------------------------------------------------------------------------
(* Dependency graph: build_knowledge_graph, get_repo_graph, get_related_files *)

A_PY == <<"a", ".", "p", "y">>
B_PY == <<"b", ".", "p", "y">>
P_B_PY == <<"p", "/", "b", ".", "p", "y">>
DIST_A_PY == <<"d", "i", "s", "t", "/", "a", ".", "p", "y">>
C_TS == <<"c", ".", "t", "s">>

\* the relative paths a repository of the model may hold
PathUniverse == { A_PY, B_PY, P_B_PY, DIST_A_PY, C_TS }

\* the lines of a file that matter to the import patterns:
\*   "py"     a line starting with `import <arg>` or `from <arg>`
\*   "pyind"  the same statement, indented (inside a function or a block)
\*   "js"     `... from '<arg>'` anywhere in a line
ImportLines ==
    { [kind |-> "py", arg |-> <<"a">>],
      [kind |-> "py", arg |-> <<"b">>],
      [kind |-> "pyind", arg |-> <<"b">>],
      [kind |-> "js", arg |-> <<".", "/", "c">>] }

\* the one repository root of the model
REPO == "/repo"

\* file names skipped by name (graph.py line 16)
LockFiles ==
    { <<"p","a","c","k","a","g","e","-","l","o","c","k",".","j","s","o","n">>,
      <<"y","a","r","n",".","l","o","c","k">> }

\* substrings that exclude a relative path (graph.py line 23)
ExcludedSubstrings ==
    { <<"n","o","d","e","_","m","o","d","u","l","e","s">>,
      <<".","g","i","t">>,
      <<".","v","e","n","v">>,
      <<"_","_","p","y","c","a","c","h","e","_","_">>,
      <<"d","i","s","t">>,
      <<"b","u","i","l","d">> }

\* a file of the walk becomes a node (graph.py lines 16-24)
IsNode(p) ==
    /\ ~StartsWith(Basename(p), <<".">>)
    /\ Basename(p) \notin LockFiles
    /\ ~\E x \in ExcludedSubstrings : Contains(p, x)

\* the orders in which os.walk (top-down) can list the files of a tree: the
\* files of a directory come before the files of its subdirectories, and the
\* files of one directory are listed together
IsParentDir(d, e) == d # e /\ (d = <<>> \/ StartsWith(e, d \o <<"/">>))

WalkOrders(tree) ==
    { o \in Perms(DOMAIN tree) :
        /\ \A i, j \in DOMAIN o : i < j => ~IsParentDir(Dirname(o[j]), Dirname(o[i]))
        /\ \A i, j, k \in DOMAIN o :
              (i < j /\ j < k /\ Dirname(o[i]) = Dirname(o[k]))
                  => (Dirname(o[j]) = Dirname(o[i]) \/ IsParentDir(Dirname(o[i]), Dirname(o[j]))) }

\* nodes, in walk order (graph.py lines 14-37)
Nodes(order) == SelectSeq(order, IsNode)

\* re.findall(r'^(?:from|import) ([\w\.]+)', content, re.MULTILINE)
PyMatches(content) ==
    LET IsPy(l) == l.kind = "py"
        hit == SelectSeq(content, IsPy)
    IN  [i \in DOMAIN hit |-> hit[i].arg]

\* re.findall(r'from [\'"]([^\'"]+)[\'"]', content)
JsMatches(content) ==
    LET IsJs(l) == l.kind = "js"
        hit == SelectSeq(content, IsJs)
    IN  [i \in DOMAIN hit |-> hit[i].arg]

DOT_PY == <<".", "p", "y">>
INIT_PY == <<"/", "_", "_", "i", "n", "i", "t", "_", "_", ".", "p", "y">>
DOT_TS == <<".", "t", "s">>
DOT_TSX == <<".", "t", "s", "x">>
DOT_JS == <<".", "j", "s">>
DOT_JSX == <<".", "j", "s", "x">>

\* mutant: the separator before the guessed name is not required
PyNodeMatchesAnySuffix(id, m) ==
    LET target_guess == ReplaceChar(m, ".", "/") \o DOT_PY
        target_guess_init == ReplaceChar(m, ".", "/") \o INIT_PY
    IN  \/ EndsWith(id, target_guess)
        \/ EndsWith(id, target_guess_init)

\* mutant: the exact comparisons are missing, so a file of the root never matches
PyNodeMatchesBelowRootOnly(id, m) ==
    LET target_guess == ReplaceChar(m, ".", "/") \o DOT_PY
        target_guess_init == ReplaceChar(m, ".", "/") \o INIT_PY
    IN  \/ EndsWith(id, <<"/">> \o target_guess)
        \/ EndsWith(id, <<"/">> \o target_guess_init)

\* the test of graph.py lines 64-65 for a Python import m
PyNodeMatches(id, m) ==
    LET target_guess == ReplaceChar(m, ".", "/") \o DOT_PY
        target_guess_init == ReplaceChar(m, ".", "/") \o INIT_PY
    IN  \/ id = target_guess
        \/ EndsWith(id, <<"/">> \o target_guess)
        \/ id = target_guess_init
        \/ EndsWith(id, <<"/">> \o target_guess_init)

\* the test of graph.py lines 80-85 for a relative JS/TS import m
JsNodeMatches(id, m) ==
    LET target_name == SubSeq(m, LastIndexOf(m, "/") + 1, Len(m))
    IN  \/ EndsWith(id, <<"/">> \o target_name \o DOT_TS)
        \/ EndsWith(id, <<"/">> \o target_name \o DOT_TSX)
        \/ EndsWith(id, <<"/">> \o target_name \o DOT_JS)
        \/ id = target_name \o DOT_TS
        \/ id = target_name \o DOT_TSX
        \/ id = target_name \o DOT_JS

\* `for n in nodes: if <test>: links.append(...); break`, given the set of
\* positions in nodes that pass the test
FirstMatchLink(source, nodes, hits) ==
    IF hits = {} THEN <<>>
    ELSE LET first == CHOOSE i \in hits : \A j \in hits : i <= j
         IN  << [source |-> source, target |-> nodes[first]] >>

\* the link a Python import m adds (graph.py lines 55-67)
PyLink(source, nodes, m) ==
    FirstMatchLink(source, nodes, { i \in DOMAIN nodes : PyNodeMatches(nodes[i], m) })

\* the link a JS/TS import m adds (graph.py lines 73-87)
JsLink(source, nodes, m) ==
    IF StartsWith(m, <<".">>)
    THEN FirstMatchLink(source, nodes, { i \in DOMAIN nodes : JsNodeMatches(nodes[i], m) })
    ELSE <<>>

RECURSIVE LinksOfMatches(_, _, _, _)
\* the links one file adds, match by match
LinksOfMatches(source, nodes, matches, isPy) ==
    IF matches = <<>> THEN <<>>
    ELSE (IF isPy THEN PyLink(source, nodes, Head(matches))
                  ELSE JsLink(source, nodes, Head(matches)))
         \o LinksOfMatches(source, nodes, Tail(matches), isPy)

\* the links of one node (graph.py lines 41-87)
LinksOfFile(tree, nodes, id) ==
    IF ~tree[id].readable THEN <<>>
    ELSE IF Suffix(id) = DOT_PY
         THEN LinksOfMatches(id, nodes, PyMatches(tree[id].content), TRUE)
    ELSE IF Suffix(id) \in { DOT_TS, DOT_TSX, DOT_JS, DOT_JSX }
         THEN LinksOfMatches(id, nodes, JsMatches(tree[id].content), FALSE)
    ELSE <<>>

RECURSIVE LinksFrom(_, _, _)
LinksFrom(tree, nodes, i) ==
    IF i > Len(nodes) THEN <<>>
    ELSE LinksOfFile(tree, nodes, nodes[i]) \o LinksFrom(tree, nodes, i + 1)

\* build_knowledge_graph(repo_path) for a walk in the given order
BuildKnowledgeGraph(tree, order) ==
    LET nodes == Nodes(order)
    IN  [nodes |-> nodes, links |-> LinksFrom(tree, nodes, 1)]

\* mutant: the edge is recorded from source to target only
AddLinkDirected(adj, link) ==
    [adj EXCEPT ![link.source] = Append(@, link.target)]

\* graph.py lines 110-119: the edge is appended in both directions
AddLink(adj, link) ==
    LET fwd == [adj EXCEPT ![link.source] = Append(@, link.target)]
    IN  [fwd EXCEPT ![link.target] = Append(@, link.source)]

RECURSIVE AddLinks(_, _)
AddLinks(adj, links) ==
    IF links = <<>> THEN adj ELSE AddLinks(AddLink(adj, Head(links)), Tail(links))

\* the adjacency list get_repo_graph computes (graph.py lines 99-119)
Adjacency(tree, order) ==
    LET g == BuildKnowledgeGraph(tree, order)
    IN  AddLinks([id \in Range(g.nodes) |-> <<>>], g.links)

\* get_related_files: the normalisation of file_path (graph.py lines 131-132)
NormalizeQuery(file_path) ==
    LET rel_path == ReplaceChar(file_path, "\\", "/")
    IN  IF StartsWith(rel_path, <<"/">>) THEN Tail(rel_path) ELSE rel_path

\* the set of paths in graph.get(rel_path, [])
Neighbors(adj, rel_path) == IF rel_path \in DOMAIN adj THEN Range(adj[rel_path]) ELSE {}

\* the lists list(set(neighbors)) can be: a set has no order of its own
RelatedLists(adj, rel_path) == Perms(Neighbors(adj, rel_path))

TotalImports == LET n[S \in SUBSET DOMAIN fs] ==
                        IF S = {} THEN 0
                        ELSE LET p == CHOOSE q \in S : TRUE
                             IN  Len(fs[p].content) + n[S \ {p}]
                IN  n[DOMAIN fs]

\* the repository is written before the process first looks at it
CreateFile(p) ==
    /\ REPO \notin DOMAIN GRAPH_CACHE
    /\ p \notin DOMAIN fs
    /\ Cardinality(DOMAIN fs) < MaxFiles
    /\ fs' = [q \in DOMAIN fs \cup {p} |->
                 IF q = p THEN [content |-> <<>>, readable |-> TRUE] ELSE fs[q]]
    /\ UNCHANGED <<GRAPH_CACHE, relQuery, relResult>>
    /\ UNCHANGED <<chunkVars, retrVars, cacheVars, valVars, buildVars, editVars, lazyVars, ingestVars, chatVars>>

\* a line is written in the language of its file
AppendImport(p, l) ==
    /\ REPO \notin DOMAIN GRAPH_CACHE
    /\ p \in DOMAIN fs
    /\ (l.kind = "js") <=> (Suffix(p) # DOT_PY)
    /\ TotalImports < MaxImports
    /\ fs' = [fs EXCEPT ![p].content = Append(@, l)]
    /\ UNCHANGED <<GRAPH_CACHE, relQuery, relResult>>
    /\ UNCHANGED <<chunkVars, retrVars, cacheVars, valVars, buildVars, editVars, lazyVars, ingestVars, chatVars>>

\* one file can no longer be read (permissions, I/O error)
MakeUnreadable(p) ==
    /\ REPO \notin DOMAIN GRAPH_CACHE
    /\ p \in DOMAIN fs
    /\ \A q \in DOMAIN fs : fs[q].readable
    /\ fs' = [fs EXCEPT ![p].readable = FALSE]
    /\ UNCHANGED <<GRAPH_CACHE, relQuery, relResult>>
    /\ UNCHANGED <<chunkVars, retrVars, cacheVars, valVars, buildVars, editVars, lazyVars, ingestVars, chatVars>>

\* the arguments get_related_files is called with
QueryPaths == PathUniverse \cup { <<"/">> \o A_PY, <<"z", ".", "p", "y">> }

\* a get_related_files that builds the graph anew on every call
GetRelatedFilesRebuilding(file_path) ==
    /\ \E order \in WalkOrders(fs) :
          LET graph == Adjacency(fs, order)
          IN  /\ GRAPH_CACHE' = [r \in {REPO} |-> graph]
              /\ relResult' \in RelatedLists(graph, NormalizeQuery(file_path))
    /\ relQuery' = file_path
    /\ UNCHANGED fs
    /\ UNCHANGED <<chunkVars, retrVars, cacheVars, valVars, buildVars, editVars, lazyVars, ingestVars, chatVars>>

\* get_related_files(REPO, file_path), with the get_repo_graph call it makes
GetRelatedFiles(file_path) ==
    /\ IF REPO \in DOMAIN GRAPH_CACHE
       THEN /\ GRAPH_CACHE' = GRAPH_CACHE
            /\ relResult' \in RelatedLists(GRAPH_CACHE[REPO], NormalizeQuery(file_path))
       ELSE \E order \in WalkOrders(fs) :
               LET graph == Adjacency(fs, order)
               IN  /\ GRAPH_CACHE' = [r \in {REPO} |-> graph]
                   /\ relResult' \in RelatedLists(graph, NormalizeQuery(file_path))
    /\ relQuery' = file_path
    /\ UNCHANGED fs
    /\ UNCHANGED <<chunkVars, retrVars, cacheVars, valVars, buildVars, editVars, lazyVars, ingestVars, chatVars>>

GraphInit ==
    /\ ChatIdle
    /\ IngestIdle
    /\ LazyIdle
    /\ EditIdle
    /\ BuildIdle
    /\ ValidateIdle
    /\ ChunkerIdle
    /\ RetrieveIdle
    /\ CacheIdle
    /\ fs = <<>>
    /\ GRAPH_CACHE = <<>>
    /\ relQuery = <<>>
    /\ relResult = <<>>

NextGraph ==
    \/ \E p \in PathUniverse : CreateFile(p)
    \/ \E p \in PathUniverse, l \in ImportLines : AppendImport(p, l)
    \/ \E p \in PathUniverse : MakeUnreadable(p)
    \/ \E q \in QueryPaths : GetRelatedFiles(q)

SpecGraph == GraphInit /\ [][NextGraph]_vars

-----------------------------------------------------------------------------
(* Retrieval: retrieve, _count_tokens, _get_collection *)

TAG_OVERHEAD == 20     \* chunk_cost = _count_tokens(chunk.text) + 20
BROAD_FACTOR == 5      \* broad_k = top_k * 5
CHARS_PER_TOKEN == 4   \* len(text) // 4
GRAPH_TOP == 3         \* ranked_chunks[:3]

\* chunk texts of 3, 4, 5 and 8 characters
TEXT3 == <<"\"", "\\", "n">>
TEXT4 == <<"x", "=", "\\", "\n">>
TEXT5 == <<"p", "a", "s", "s", "!">>
TEXT8 == <<"i", "m", "p", "o", "r", "t", " ", "b">>

\* the chunks an index of the model is made of, in build order
ChunkUniverse ==
    << [path |-> A_PY, start_line |-> 1, end_line |-> 2, text |-> TEXT8],
       [path |-> A_PY, start_line |-> 2, end_line |-> 3, text |-> TEXT4],
       [path |-> B_PY, start_line |-> 1, end_line |-> 1, text |-> TEXT3],
       [path |-> P_B_PY, start_line |-> 9, end_line |-> 10, text |-> TEXT5] >>

\* unit vectors: what model.encode(..., normalize_embeddings=True) returns
VecSet == { <<1, 0>>, <<0, 1>> }

\* an embeddings array: its shape and its rows
Matrix(rows) == [shape |-> <<Len(rows), IF rows = <<>> THEN 0 ELSE Len(rows[1])>>, data |-> rows]

\* np.zeros((0, 0))
ZerosMatrix == [shape |-> <<0, 0>>, data |-> <<>>]

\* ndarray.size
Size(m) == m.shape[1] * m.shape[2]

RECURSIVE SubSeqsOf(_)
\* the subsequences of a sequence (order kept)
SubSeqsOf(s) ==
    IF s = <<>> THEN { <<>> }
    ELSE LET rest == SubSeqsOf(Tail(s))
         IN  rest \cup { <<Head(s)>> \o t : t \in rest }

\* RetrievalIndex(chunks, embeddings), as build_index returns it
BuiltIndex(chunks, rows) ==
    [chunks |-> chunks,
     embeddings |-> IF chunks = <<>> THEN ZerosMatrix ELSE Matrix(rows),
     collection_name |-> "None",
     collection_path |-> "None"]

\* DEFAULT_EMBED_MODEL and DEFAULT_CACHE_DIR without the environment overrides
DEFAULT_EMBED_MODEL == "all-MiniLM-L6-v2"
DEFAULT_CACHE_DIR == ".rag_cache"

\* repo_url or ''   (None is written "None")
OrEmpty(repo_url) == IF repo_url = "None" THEN "" ELSE repo_url

\* hashlib.sha256(payload).hexdigest(): a digest that tells payloads apart
Sha256(payload) == "sha256(" \o payload \o ")"

\* _cache_key(repo_path, repo_url)
CacheKey(repo_path, repo_url) ==
    Sha256(repo_path \o ":" \o OrEmpty(repo_url) \o ":" \o DEFAULT_EMBED_MODEL \o ":"
           \o ToString(CHUNK_LINE_SIZE) \o ":" \o ToString(CHUNK_OVERLAP))

\* str(_cache_dir(repo_path))
CacheDir(repo_path) == repo_path \o "/" \o DEFAULT_CACHE_DIR

\* collection_name = f"repo_{key}"
CollectionName(key) == "repo_" \o key

\* the collection name and path save_index gives an index of REPO
COLLECTION == CollectionName(CacheKey(REPO, "None"))
CACHE_DIR == CacheDir(REPO)

\* the indexes retrieve is handed: built ones (with or without the collection
\* fields save_index sets), and ones whose vector table has no elements
IndexSet ==
    LET built == UNION { { BuiltIndex(cs, rows) : rows \in [DOMAIN cs -> VecSet] } :
                         cs \in { c \in SubSeqsOf(ChunkUniverse) : Len(c) <= MaxChunks } }
        saved == { [i EXCEPT !.collection_name = COLLECTION, !.collection_path = CACHE_DIR] :
                   i \in { b \in built : b.chunks # <<>> } }
        hollow == { [i EXCEPT !.embeddings = ZerosMatrix] :
                    i \in { b \in built \cup saved : Len(b.chunks) = 1 } }
    IN  built \cup saved \cup hollow

\* an index with more chunks than a broad retrieval of top_k = 1 keeps: two
\* chunks of a.py, three of b.py and one of p/b.py, in build order
WideIndex ==
    BuiltIndex(<< ChunkUniverse[1], ChunkUniverse[2], ChunkUniverse[3],
                  [path |-> B_PY, start_line |-> 2, end_line |-> 2, text |-> TEXT5],
                  [path |-> B_PY, start_line |-> 3, end_line |-> 3, text |-> TEXT4],
                  ChunkUniverse[4] >>,
               << <<1, 0>>, <<0, 1>>, <<1, 0>>, <<0, 1>>, <<0, 1>>, <<1, 0>> >>)

\* an index in which two chunks have the same path and start line, as
\* load_index returns it from a metadata file that lists them
DupIndex ==
    BuiltIndex(<< ChunkUniverse[1],
                  [path |-> A_PY, start_line |-> 1, end_line |-> 1, text |-> TEXT3],
                  ChunkUniverse[3] >>,
               << <<1, 0>>, <<1, 0>>, <<0, 1>> >>)

\* mutant: only the chunk list is tested
IsEmptyIndexChunksOnly(index) == index.chunks = <<>>

\* mutant: an index of one chunk counts as empty
IsEmptyIndexOrSingle(index) == Len(index.chunks) <= 1 \/ Size(index.embeddings) = 0

\* if not index.chunks or index.embeddings.size == 0
IsEmptyIndex(index) == index.chunks = <<>> \/ Size(index.embeddings) = 0

\* the tokenizer of tiktoken is outside the repository: one token per character
TikTokens(text) == Len(text)

\* _count_tokens(text); tik: tiktoken is installed and its encoding loads
CountTokens(text, tik) == IF tik THEN TikTokens(text) ELSE Len(text) \div CHARS_PER_TOKEN

\* chunk_cost
ChunkCost(chunk, tik) == CountTokens(chunk.text, tik) + TAG_OVERHEAD

\* mutant: the budget is tested before the chunk is added
FitsBeforeAdding(current_tokens, chunk_cost, max_tokens) == current_tokens <= max_tokens

\* mutant: a chunk that fills the budget exactly is left out
FitsStrictly(current_tokens, chunk_cost, max_tokens) == current_tokens + chunk_cost < max_tokens

\* if current_tokens + chunk_cost <= max_tokens
Fits(current_tokens, chunk_cost, max_tokens) == current_tokens + chunk_cost <= max_tokens

RECURSIVE PackSkipping(_, _, _, _)
\* mutant: a chunk that does not fit is passed over and the loop goes on
PackSkipping(chunks, current_tokens, max_tokens, tik) ==
    IF chunks = <<>> THEN <<>>
    ELSE LET chunk_cost == ChunkCost(Head(chunks), tik)
         IN  IF current_tokens + chunk_cost <= max_tokens
             THEN <<Head(chunks)>>
                      \o PackSkipping(Tail(chunks), current_tokens + chunk_cost, max_tokens, tik)
             ELSE PackSkipping(Tail(chunks), current_tokens, max_tokens, tik)

RECURSIVE Pack(_, _, _, _)
\* the packing loop (retrieval.py lines 264-275), from current_tokens on
Pack(chunks, current_tokens, max_tokens, tik) ==
    IF chunks = <<>> THEN <<>>
    ELSE LET chunk_cost == ChunkCost(Head(chunks), tik)
         IN  IF Fits(current_tokens, chunk_cost, max_tokens)
             THEN <<Head(chunks)>> \o Pack(Tail(chunks), current_tokens + chunk_cost, max_tokens, tik)
             ELSE <<>>

\* the decimal digits
Digits == <<"0", "1", "2", "3", "4", "5", "6", "7", "8", "9">>

RECURSIVE JsonDumpsInt(_)
\* the decimal text of an int n: str(n), json.dumps(n)
JsonDumpsInt(n) ==
    IF n < 0 THEN <<"-">> \o JsonDumpsInt(0 - n)
    ELSE IF n < Len(Digits) THEN <<Digits[n + 1]>>
    ELSE JsonDumpsInt(n \div Len(Digits)) \o <<Digits[(n % Len(Digits)) + 1]>>

\* uid = f"{c.path}:{c.start_line}"
Uid(c) == c.path \o <<":">> \o JsonDumpsInt(c.start_line)

\* mutant: nothing is removed
DedupeNone(chunks, seen) == chunks

RECURSIVE Dedupe(_, _)
\* retrieval.py lines 254-261: the first chunk of each uid is kept
Dedupe(chunks, seen) ==
    IF chunks = <<>> THEN <<>>
    ELSE LET c == Head(chunks)
             uid == Uid(c)
         IN  IF uid \in seen THEN Dedupe(Tail(chunks), seen)
             ELSE <<c>> \o Dedupe(Tail(chunks), seen \cup {uid})

\* np.dot of two vectors
Dot(u, v) == LET d[i \in 0..Len(u)] == IF i = 0 THEN 0 ELSE d[i - 1] + u[i] * v[i]
             IN  d[Len(u)]

\* np.dot(index.embeddings, query_embedding[0]) is defined
DotDefined(m, qv) == m.shape[2] = Len(qv)

\* np.argsort(scores)[::-1]: positions by descending score; argsort's default
\* sort is not stable, so equal scores may come in any order
ArgsortDescending(scores) ==
    { p \in Perms(DOMAIN scores) : \A i \in 1..(Len(p) - 1) : scores[p[i]] >= scores[p[i + 1]] }

RECURSIVE InsertByScore(_, _)
\* insert pair x after every pair whose score is not smaller
InsertByScore(sorted, x) ==
    IF sorted = <<>> THEN <<x>>
    ELSE IF Head(sorted)[2] >= x[2] THEN <<Head(sorted)>> \o InsertByScore(Tail(sorted), x)
    ELSE <<x>> \o sorted

RECURSIVE SortedByScore(_)
\* sorted(pairs, key=lambda x: x[1], reverse=True): stable
SortedByScore(pairs) ==
    IF pairs = <<>> THEN <<>>
    ELSE InsertByScore(SortedByScore(SubSeq(pairs, 1, Len(pairs) - 1)), pairs[Len(pairs)])

\* mutant: the scores are computed and not used
RerankUnsorted(broad_chunks, scores, ranker) == broad_chunks

\* ranked_chunks (retrieval.py lines 187-197)
Rerank(broad_chunks, scores, ranker) ==
    IF ranker
    THEN LET scored_chunks == SortedByScore([i \in DOMAIN broad_chunks |-> <<broad_chunks[i], scores[i]>>])
         IN  [i \in DOMAIN scored_chunks |-> scored_chunks[i][1]]
    ELSE broad_chunks

\* graph_chunks (retrieval.py lines 232-243), for the adjacency in use
GraphChunks(index, ranked_chunks, graph) ==
    LET top == PySlice(ranked_chunks, 0, GRAPH_TOP)
        top_paths == { top[i].path : i \in DOMAIN top }
        related_paths == UNION { Neighbors(graph, NormalizeQuery(p)) : p \in top_paths }
        rank_paths == { ranked_chunks[i].path : i \in DOMAIN ranked_chunks }
        Wanted(chunk) == chunk.path \in related_paths /\ chunk.path \notin rank_paths
    IN  SelectSeq(index.chunks, Wanted)

\* the repository the indexes of the model were built from
IndexedRepo ==
    [p \in {A_PY, B_PY, P_B_PY} |->
        [content |-> IF p = A_PY THEN << [kind |-> "py", arg |-> <<"b">>] >> ELSE <<>>,
         readable |-> TRUE]]

NoResult == [status |-> "none"]

\* the external store holds no collection
NoStore == <<>>

\* the values of max_tokens tried: nothing fits, one short chunk fits exactly,
\* two short chunks fit exactly, everything fits
BudgetSet ==
    { 0, TAG_OVERHEAD, 2 * TAG_OVERHEAD + 1, MaxChunks * (TAG_OVERHEAD + 8) }

\* the external store as save_index left it when it saved this index
StoreOf(index) ==
    IF index.collection_name = "None" THEN NoStore
    ELSE [n \in {index.collection_name} |->
             [i \in 0..(Len(index.embeddings.data) - 1) |-> index.embeddings.data[i + 1]]]

\* retrieve returns []: the index is empty (retrieval.py lines 158-159)
RetrieveEmpty(top_k, max_tokens) ==
    /\ IsEmptyIndex(idx)
    /\ ret' = [status |-> "returned", top_k |-> top_k, max_tokens |-> max_tokens,
               tik |-> FALSE, ranked |-> <<>>, unique |-> <<>>, packed |-> <<>>,
               calls |-> {}]
    /\ UNCHANGED <<idx, MODEL, RANKER, store, GRAPH_CACHE>>

\* retrieve raises: the embedding model cannot be loaded, the store query
\* fails or names a position outside chunks, or np.dot rejects the shapes
RetrieveRaises(top_k, max_tokens, calls, model) ==
    /\ ret' = [status |-> "raised", top_k |-> top_k, max_tokens |-> max_tokens,
               tik |-> FALSE, ranked |-> <<>>, unique |-> <<>>, packed |-> <<>>,
               calls |-> calls]
    /\ MODEL' = model
    /\ UNCHANGED <<idx, RANKER, store, GRAPH_CACHE>>

\* the adjacency lists get_repo_graph can return
RepoGraphs ==
    IF REPO \in DOMAIN GRAPH_CACHE THEN { GRAPH_CACHE[REPO] }
    ELSE { Adjacency(fs, order) : order \in WalkOrders(fs) }

\* the steps of retrieve after broad retrieval (retrieval.py lines 174-275)
RetrieveFrom(top_k, query_embedding, top_indices, max_tokens, with_repo, calls, store_after) ==
    LET broad_chunks == [i \in DOMAIN top_indices |-> idx.chunks[top_indices[i]]]
        \* get_related_files is called once ranked_chunks has a chunk
        asks_graph == with_repo /\ broad_chunks # <<>>
    IN  \E graph \in (IF asks_graph THEN RepoGraphs ELSE { <<>> }) :
        \E ranker \in (IF RANKER THEN {TRUE} ELSE BOOLEAN), tik \in BOOLEAN :
        \E scores \in (IF ranker THEN [DOMAIN broad_chunks -> 0..1]
                                  ELSE { [i \in DOMAIN broad_chunks |-> 0] }) :
          LET ranked_chunks == Rerank(broad_chunks, scores, ranker)
              graph_chunks == IF asks_graph THEN GraphChunks(idx, ranked_chunks, graph)
                              ELSE <<>>
              final_unique_chunks == Dedupe(ranked_chunks \o graph_chunks, {})
          IN  /\ RANKER' = ranker
              /\ MODEL' = TRUE
              /\ store' = store_after
              /\ GRAPH_CACHE' = IF asks_graph THEN [r \in {REPO} |-> graph]
                                ELSE GRAPH_CACHE
              /\ ret' = [status |-> "returned", top_k |-> top_k,
                         query_embedding |-> query_embedding,
                         max_tokens |-> max_tokens, tik |-> tik,
                         broad |-> broad_chunks, scores |-> scores,
                         ranked |-> ranked_chunks,
                         unique |-> final_unique_chunks,
                         packed |-> Pack(final_unique_chunks, 0, max_tokens, tik),
                         calls |-> calls \cup (IF ranker THEN {"ranker"} ELSE {})
                                         \cup (IF asks_graph THEN {"graph"} ELSE {})]
              /\ UNCHANGED idx

\* _get_collection(index) can return a collection
HasCollection(index) ==
    chromadb /\ index.collection_name # "None" /\ index.collection_path # "None"

\* the ids collection.query returns: the n_results nearest stored vectors
StoreQuery(coll, qv, n) ==
    LET ids == DOMAIN coll
        scores == [i \in ids |-> Dot(coll[i], qv)]
    IN  { PySlice(p, 0, n) : p \in ArgsortDescending(scores) }

\* retrieve(query, idx, top_k, max_tokens, repo_path) on an index with chunks
RetrieveSearch(top_k, max_tokens, with_repo) ==
    /\ ~IsEmptyIndex(idx)
    /\ \E qv \in VecSet, opens \in (IF HasCollection(idx) THEN BOOLEAN ELSE {FALSE}) :
          LET broad_k == top_k * BROAD_FACTOR
          IN  IF opens
              THEN \* get_or_create_collection, then collection.query
                   LET name == idx.collection_name
                       coll == IF name \in DOMAIN store THEN store[name] ELSE <<>>
                       opened == [n \in DOMAIN store \cup {name} |->
                                     IF n = name THEN coll ELSE store[n]]
                   IN  \E ids \in StoreQuery(coll, qv, broad_k) :
                          IF \A i \in DOMAIN ids : ids[i] + 1 \in DOMAIN idx.chunks
                          THEN RetrieveFrom(top_k, qv, [i \in DOMAIN ids |-> ids[i] + 1], max_tokens,
                                                   with_repo, {"model", "collection"}, opened)
                          ELSE RetrieveRaises(top_k, max_tokens, {"model", "collection"}, TRUE)
              ELSE IF DotDefined(idx.embeddings, qv)
              THEN LET scores == [i \in DOMAIN idx.embeddings.data |->
                                     Dot(idx.embeddings.data[i], qv)]
                   IN  \E p \in ArgsortDescending(scores) :
                          RetrieveFrom(top_k, qv, PySlice(p, 0, broad_k), max_tokens,
                                       with_repo, {"model"}, store)
              ELSE RetrieveRaises(top_k, max_tokens, {"model"}, TRUE)

\* _get_model() or model.encode fails: the embedding model is unavailable
RetrieveNoModel(top_k, max_tokens) ==
    /\ ~IsEmptyIndex(idx)
    /\ ~MODEL
    /\ RetrieveRaises(top_k, max_tokens, {"model"}, FALSE)

\* one call of retrieve; the caller has let go of the previous result
Retrieve(top_k, max_tokens, with_repo) ==
    /\ ret = NoResult
    /\ \/ RetrieveEmpty(top_k, max_tokens)
       \/ RetrieveSearch(top_k, max_tokens, with_repo)
       \/ RetrieveNoModel(top_k, max_tokens)
    /\ UNCHANGED <<fs, relQuery, relResult, chromadb>>
    /\ UNCHANGED <<chunkVars, cacheVars, valVars, buildVars, editVars, lazyVars, ingestVars, chatVars>>

\* the caller lets go of the list retrieve returned (or of the exception)
DropResult ==
    /\ ret # NoResult
    /\ ret' = NoResult
    /\ UNCHANGED <<idx, MODEL, RANKER, chromadb, store>>
    /\ UNCHANGED <<chunkVars, graphVars, cacheVars, valVars, buildVars, editVars, lazyVars, ingestVars, chatVars>>

RetrieveInit ==
    /\ ChatIdle
    /\ IngestIdle
    /\ LazyIdle
    /\ EditIdle
    /\ BuildIdle
    /\ ValidateIdle
    /\ ChunkerIdle
    /\ CacheIdle
    /\ fs = IndexedRepo
    /\ GRAPH_CACHE = <<>>
    /\ relQuery = <<>>
    /\ relResult = <<>>
    /\ idx \in IndexSet
    /\ MODEL = FALSE
    /\ RANKER = FALSE
    /\ chromadb \in BOOLEAN
    /\ store = StoreOf(idx)
    /\ ret = NoResult

NextRetrieve ==
    \/ \E top_k \in 0..MaxTopK, max_tokens \in BudgetSet, with_repo \in BOOLEAN :
          Retrieve(top_k, max_tokens, with_repo)
    \/ DropResult

SpecRetrieve == RetrieveInit /\ [][NextRetrieve]_vars

\* a repository in which a.py imports b and p/b.py imports a
ExpandRepo ==
    [p \in {A_PY, B_PY, P_B_PY} |->
        [content |-> IF p = A_PY THEN << [kind |-> "py", arg |-> <<"b">>] >>
                     ELSE IF p = P_B_PY THEN << [kind |-> "py", arg |-> <<"a">>] >>
                     ELSE <<>>,
         readable |-> TRUE]]

\* retrieve on an index that a broad retrieval does not exhaust
ExpandInit ==
    /\ ChatIdle
    /\ IngestIdle
    /\ LazyIdle
    /\ EditIdle
    /\ BuildIdle
    /\ ValidateIdle
    /\ ChunkerIdle
    /\ CacheIdle
    /\ fs = ExpandRepo
    /\ GRAPH_CACHE = <<>>
    /\ relQuery = <<>>
    /\ relResult = <<>>
    /\ idx \in { WideIndex, DupIndex, BuiltIndex(<<>>, <<>>) }
    /\ MODEL = FALSE
    /\ RANKER = FALSE
    /\ chromadb = FALSE
    /\ store = NoStore
    /\ ret = NoResult

SpecExpand == ExpandInit /\ [][NextRetrieve]_vars

-----------------------------------------------------------------------------
(* The index cache: save_index and load_index (services/retrieval.py) *)

\* mutant: a backslash is written without its escape
JsonEscapeNoBackslash(c) ==
    CASE c = "\"" -> <<"\\", "\"">>
      [] c = "\n" -> <<"\\", "n">>
      [] c = "\t" -> <<"\\", "t">>
      [] OTHER    -> <<c>>

\* json.dumps of one character of a str
JsonEscape(c) ==
    CASE c = "\"" -> <<"\\", "\"">>
      [] c = "\\" -> <<"\\", "\\">>
      [] c = "\n" -> <<"\\", "n">>
      [] c = "\t" -> <<"\\", "t">>
      [] OTHER    -> <<c>>

\* json.dumps(s) for a str s: the quoted, escaped text
JsonDumpsStr(s) ==
    <<"\"">> \o Flatten([i \in DOMAIN s |-> JsonEscape(s[i])]) \o <<"\"">>

\* what json.loads answers when the text is not valid JSON
JsonError == [ok |-> FALSE, val |-> <<>>]

RECURSIVE JsonUnescape(_)
\* the str a JSON string body stands for
JsonUnescape(t) ==
    IF t = <<>> THEN [ok |-> TRUE, val |-> <<>>]
    ELSE IF t[1] \in {"\"", "\n", "\t"} THEN JsonError
    ELSE IF t[1] = "\\"
    THEN IF Len(t) < 2 \/ t[2] \notin {"\"", "\\", "n", "t"} THEN JsonError
         ELSE LET rest == JsonUnescape(SubSeq(t, 3, Len(t)))
                  c == CASE t[2] = "n" -> "\n" [] t[2] = "t" -> "\t" [] OTHER -> t[2]
              IN  IF rest.ok THEN [ok |-> TRUE, val |-> <<c>> \o rest.val] ELSE JsonError
    ELSE LET rest == JsonUnescape(Tail(t))
         IN  IF rest.ok THEN [ok |-> TRUE, val |-> <<t[1]>> \o rest.val] ELSE JsonError

\* json.loads(t) for the text of a JSON string
JsonLoadsStr(t) ==
    IF Len(t) < 2 \/ t[1] # "\"" \/ t[Len(t)] # "\"" THEN JsonError
    ELSE JsonUnescape(SubSeq(t, 2, Len(t) - 1))

RECURSIVE JsonLoadsDigits(_, _)
\* the value of a run of digits after the value acc of the digits before it
JsonLoadsDigits(t, acc) ==
    IF t = <<>> THEN acc
    ELSE JsonLoadsDigits(Tail(t),
             acc * Len(Digits) + (CHOOSE d \in 0..(Len(Digits) - 1) : Digits[d + 1] = t[1]))

\* json.loads(t) for the text of an int
JsonLoadsInt(t) ==
    IF t[1] = "-" THEN 0 - JsonLoadsDigits(Tail(t), 0) ELSE JsonLoadsDigits(t, 0)

\* np.save(path, m): the shape in the header, the elements in row-major order
NpySave(m) == [shape |-> m.shape, flat |-> Flatten(m.data)]

\* np.load(path): the elements cut into rows of the saved shape
NpyLoad(f) ==
    [shape |-> f.shape,
     data |-> [i \in 1..f.shape[1] |->
                  SubSeq(f.flat, (i - 1) * f.shape[2] + 1, i * f.shape[2])]]

\* meta_path and emb_path
MetaPath(repo_path, repo_url) ==
    CacheDir(repo_path) \o "/" \o CacheKey(repo_path, repo_url) \o ".json"
EmbPath(repo_path, repo_url) ==
    CacheDir(repo_path) \o "/" \o CacheKey(repo_path, repo_url) \o ".npy"

\* json.dumps(metadata): the document save_index writes, its strings and
\* numbers as the characters written (the two collection fields are ASCII
\* names without a character to escape and are kept whole)
MetaDumps(index, collection_name, collection_path) ==
    [chunks |-> [i \in DOMAIN index.chunks |->
                    [path |-> JsonDumpsStr(index.chunks[i].path),
                     start_line |-> JsonDumpsInt(index.chunks[i].start_line),
                     end_line |-> JsonDumpsInt(index.chunks[i].end_line),
                     text |-> JsonDumpsStr(index.chunks[i].text)]],
     collection_name |-> collection_name,
     collection_path |-> collection_path]

\* load_index returns None
NoIndex == [found |-> FALSE]

\* load_index(repo_path, repo_url) on the files of disk
LoadIndexResult(repo_path, repo_url) ==
    LET meta_path == MetaPath(repo_path, repo_url)
        emb_path == EmbPath(repo_path, repo_url)
    IN  IF meta_path \notin DOMAIN disk \/ emb_path \notin DOMAIN disk THEN NoIndex
        ELSE LET metadata == disk[meta_path]
                 items == metadata.chunks
                 path(i) == JsonLoadsStr(items[i].path)
                 text(i) == JsonLoadsStr(items[i].text)
             IN  \* json.loads raises: except Exception: return None
                 IF \E i \in DOMAIN items : ~path(i).ok \/ ~text(i).ok THEN NoIndex
                 ELSE [found |-> TRUE,
                       index |-> [chunks |-> [i \in DOMAIN items |->
                                     [path |-> path(i).val,
                                      start_line |-> JsonLoadsInt(items[i].start_line),
                                      end_line |-> JsonLoadsInt(items[i].end_line),
                                      text |-> text(i).val]],
                                  embeddings |-> NpyLoad(disk[emb_path]),
                                  collection_name |-> metadata.collection_name,
                                  collection_path |-> metadata.collection_path]]

\* the repo_url arguments tried: None and a URL
UrlSet == { "None", "u" }

\* the log keeps the last two cache calls
Logged(entry) ==
    LET l == Append(cacheLog, entry) IN SubSeq(l, Max(1, Len(l) - 1), Len(l))

\* save_index(REPO, idx, repo_url)
SaveIndex(repo_url) ==
    LET meta_path == MetaPath(REPO, repo_url)
        emb_path == EmbPath(REPO, repo_url)
        collection_name == CollectionName(CacheKey(REPO, repo_url))
        written == [p \in DOMAIN disk \cup {meta_path, emb_path} |->
                       IF p = meta_path THEN MetaDumps(idx, collection_name, CACHE_DIR)
                       ELSE IF p = emb_path THEN NpySave(idx.embeddings)
                       ELSE disk[p]]
        ids == 0..(Len(idx.chunks) - 1)
        rows == idx.embeddings.data
        old == IF collection_name \in DOMAIN store THEN store[collection_name] ELSE <<>>
        \* get_or_create_collection
        created == [n \in DOMAIN store \cup {collection_name} |->
                       IF n = collection_name THEN old ELSE store[n]]
        \* collection.upsert: the ids given are replaced, the others stay
        upserted == [created EXCEPT ![collection_name] =
                        [i \in DOMAIN old \cup ids |->
                            IF i \in ids THEN rows[i + 1] ELSE old[i]]]
    IN  /\ disk' = written
        /\ IF chromadb /\ idx.chunks # <<>>
           THEN \* the client cannot be opened, or the upsert succeeds; it is
                \* refused when ids and embeddings differ in length
                \E outcome \in (IF Len(rows) = Len(idx.chunks) THEN {"no client", "ok"}
                                ELSE {"no upsert"}) :
                   /\ store' = CASE outcome = "ok" -> upserted
                                 [] outcome = "no upsert" -> created
                                 [] OTHER -> store
                   /\ idx' = IF outcome = "ok"
                             THEN [idx EXCEPT !.collection_name = collection_name,
                                              !.collection_path = CACHE_DIR]
                             ELSE idx
                   /\ cacheLog' = Logged([op |-> "save", repo_url |-> repo_url,
                                          index |-> idx, raised |-> outcome # "ok"])
           ELSE /\ UNCHANGED <<store, idx>>
                /\ cacheLog' = Logged([op |-> "save", repo_url |-> repo_url,
                                       index |-> idx, raised |-> FALSE])
        /\ UNCHANGED <<MODEL, RANKER, chromadb, ret>>
        /\ UNCHANGED <<chunkVars, graphVars, valVars, buildVars, editVars, lazyVars, ingestVars, chatVars>>

\* save_index(REPO, idx, repo_url) stopped (the process is killed, or another
\* request runs) once meta_path.write_text has returned and before np.save
SaveIndexInterrupted(repo_url) ==
    LET meta_path == MetaPath(REPO, repo_url)
        collection_name == CollectionName(CacheKey(REPO, repo_url))
    IN  /\ disk' = [p \in DOMAIN disk \cup {meta_path} |->
                       IF p = meta_path THEN MetaDumps(idx, collection_name, CACHE_DIR)
                       ELSE disk[p]]
        /\ cacheLog' = Logged([op |-> "save interrupted", repo_url |-> repo_url,
                               index |-> idx, raised |-> FALSE])
        /\ UNCHANGED <<retrVars, chunkVars, graphVars, valVars, buildVars, editVars, lazyVars, ingestVars, chatVars>>

\* load_index(REPO, repo_url)
LoadIndex(repo_url) ==
    /\ cacheLog' = Logged([op |-> "load", repo_url |-> repo_url,
                           result |-> LoadIndexResult(REPO, repo_url)])
    /\ UNCHANGED <<disk, retrVars, chunkVars, graphVars, valVars, buildVars, editVars, lazyVars, ingestVars, chatVars>>

\* build_index(REPO) once the file of the last chunk has left the repository
BuildIndex ==
    /\ idx.chunks # <<>>
    /\ LET chunks == SubSeq(idx.chunks, 1, Len(idx.chunks) - 1)
       IN  /\ idx' = BuiltIndex(chunks, SubSeq(idx.embeddings.data, 1, Len(chunks)))
           /\ MODEL' = (MODEL \/ chunks # <<>>)
    /\ UNCHANGED <<RANKER, chromadb, store, ret>>
    /\ UNCHANGED <<cacheVars, chunkVars, graphVars, valVars, buildVars, editVars, lazyVars, ingestVars, chatVars>>

\* the indexes the cache is tried with: as build_index returns them, without
\* a chunk or of MaxChunks chunks whose vectors alternate between the two
\* unit vectors
CacheIndexSet ==
    { i \in IndexSet :
        /\ i.collection_name = "None"
        /\ \/ i.chunks = <<>>
           \/ /\ Len(i.chunks) = MaxChunks
              /\ \A r \in DOMAIN i.embeddings.data :
                    i.embeddings.data[r] = (IF r % 2 = 1 THEN <<1, 0>> ELSE <<0, 1>>) }

CacheInit ==
    /\ ChatIdle
    /\ IngestIdle
    /\ LazyIdle
    /\ EditIdle
    /\ BuildIdle
    /\ ValidateIdle
    /\ ChunkerIdle
    /\ GraphIdle
    /\ idx \in CacheIndexSet
    /\ MODEL = FALSE
    /\ RANKER = FALSE
    /\ chromadb \in BOOLEAN
    /\ store = NoStore
    /\ ret = NoResult
    /\ disk = <<>>
    /\ cacheLog = <<>>

NextCache ==
    \/ \E repo_url \in UrlSet : SaveIndex(repo_url)
    \/ \E repo_url \in UrlSet : SaveIndexInterrupted(repo_url)
    \/ \E repo_url \in UrlSet : LoadIndex(repo_url)
    \/ BuildIndex

SpecCache == CacheInit /\ [][NextCache]_vars

-----------------------------------------------------------------------------
(* Provenance validator: _validate_mermaid, _is_mermaid_valid (services/chat.py) *)

\* the backquote, a character a TLA+ string cannot hold, is written ^
BACKQUOTE == "^"

\* the code fence (three backquotes) and the fence that opens a diagram block
FENCE == <<BACKQUOTE, BACKQUOTE, BACKQUOTE>>
MERMAID_FENCE == FENCE \o <<"m", "e", "r", "m", "a", "i", "d">>

\* s.find(sep) + 1: where sep first starts in s, 0 when it does not occur
FirstIndex(s, sep) ==
    LET hits == { i \in 1..(Len(s) - Len(sep) + 1) : SubSeq(s, i, i + Len(sep) - 1) = sep }
    IN  IF hits = {} THEN 0 ELSE CHOOSE i \in hits : \A j \in hits : i <= j

RECURSIVE SplitOn(_, _)
\* s.split(sep)
SplitOn(s, sep) ==
    LET i == FirstIndex(s, sep)
    IN  IF i = 0 THEN <<s>>
        ELSE <<SubSeq(s, 1, i - 1)>> \o SplitOn(SubSeq(s, i + Len(sep), Len(s)), sep)

\* s.split(sep, 1) for an s that contains sep
SplitOnce(s, sep) ==
    LET i == FirstIndex(s, sep)
    IN  <<SubSeq(s, 1, i - 1), SubSeq(s, i + Len(sep), Len(s))>>

RECURSIVE Join(_, _)
\* sep.join(parts)
Join(parts, sep) ==
    IF parts = <<>> THEN <<>>
    ELSE IF Len(parts) = 1 THEN parts[1]
    ELSE parts[1] \o sep \o Join(Tail(parts), sep)

\* s.replace(old, new)
Replace(s, old, new) == Join(SplitOn(s, old), new)

RECURSIVE Words(_)
\* s.split(): the pieces of s between runs of white space
Words(s) ==
    LET t == LStrip(s)
        spaces == { i \in DOMAIN t : IsSpace(t[i]) }
        n == IF spaces = {} THEN Len(t) + 1 ELSE CHOOSE i \in spaces : \A j \in spaces : i <= j
    IN  IF t = <<>> THEN <<>>
        ELSE <<SubSeq(t, 1, n - 1)>> \o Words(SubSeq(t, n, Len(t)))

\* the letters and digits the texts of the model are written with
AlnumChars ==
    { "a", "b", "c", "d", "e", "f", "g", "h", "i", "j", "k", "l", "m", "n", "o", "p",
      "q", "r", "s", "t", "u", "v", "w", "x", "y", "z", "A", "B", "D", "T",
      "0", "1", "2", "3", "4", "5", "6", "7", "8", "9" }

\* str.isalnum()
IsAlnum(s) == s # <<>> /\ \A i \in DOMAIN s : s[i] \in AlnumChars

\* the regular expression classes \w and [\w/.-]
WordChars == AlnumChars \cup { "_" }
PathChars == WordChars \cup { "/", ".", "-" }

\* [line.strip() for line in mermaid.strip().splitlines() if line.strip()]
StrippedLines(mermaid) ==
    LET stripped == [l \in DOMAIN SplitOn(Strip(mermaid), <<"\n">>) |->
                        Strip(SplitOn(Strip(mermaid), <<"\n">>)[l])]
    IN  SelectSeq(stripped, LAMBDA line : line # <<>>)

\* the tokens of one line of a diagram
LineTokens(line) ==
    Words(Replace(Replace(Replace(Replace(line,
              <<"-", "-", ">">>, <<" ">>), <<"-", ".", "-", ">">>, <<" ">>),
              <<"=", "=", ">">>, <<" ">>), <<"|">>, <<" ">>))

\* token.split(c, 1)[0] if c in token
CutAt(token, c) ==
    IF Contains(token, <<c>>) THEN SubSeq(token, 1, FirstIndex(token, <<c>>) - 1) ELSE token

\* the words _is_mermaid_valid does not take for node identifiers
MermaidKeywords ==
    { <<"g", "r", "a", "p", "h">>,
      <<"T", "D">>,
      <<"L", "R">>,
      <<"s", "u", "b", "g", "r", "a", "p", "h">>,
      <<"e", "n", "d">>,
      <<"f", "l", "o", "w", "c", "h", "a", "r", "t">>,
      <<"s", "e", "q", "u", "e", "n", "c", "e", "D", "i", "a", "g", "r", "a", "m">>,
      <<"p", "a", "r", "t", "i", "c", "i", "p", "a", "n", "t">> }

\* one token passes the identifier test
TokenPasses(token0) ==
    LET token == CutAt(CutAt(CutAt(token0, "["), "("), "{")
    IN  \/ token = <<>>
        \/ token \in MermaidKeywords
        \/ IsAlnum(SelectSeq(token, LAMBDA c : c # "_"))
        \/ Contains(token, <<"\"">>)

\* _is_mermaid_valid(mermaid)
IsMermaidValid(mermaid) ==
    LET lines_ == StrippedLines(mermaid)
    IN  /\ lines_ # <<>>
        /\ \/ StartsWith(lines_[1], <<"g", "r", "a", "p", "h", " ">>)
           \/ StartsWith(lines_[1], <<"f", "l", "o", "w", "c", "h", "a", "r", "t", " ">>)
           \/ StartsWith(lines_[1], <<"s", "e", "q", "u", "e", "n", "c", "e", "D", "i", "a", "g", "r", "a", "m">>)
        /\ \A l \in 2..Len(lines_) :
              \/ StartsWith(lines_[l], <<"%", "%">>)
              \/ \A t \in DOMAIN LineTokens(lines_[l]) : TokenPasses(LineTokens(lines_[l])[t])

RECURSIVE RunLength(_, _)
\* the length of the longest prefix of s written with the characters of class
RunLength(s, class) ==
    IF s # <<>> /\ Head(s) \in class THEN 1 + RunLength(Tail(s), class) ELSE 0

\* the group of [\[\(]([\w/.-]+\.\w+)[\]\)] matched at the start of s, <<>>
\* when the expression does not match there: the whole run of path characters
\* after the bracket, which must hold a dot that is not its first character,
\* word characters only after its last dot, and be followed by a bracket
LabelAt(s) ==
    LET n == RunLength(Tail(s), PathChars)
        run == SubSeq(s, 2, n + 1)
        dot == LastIndexOf(run, ".")
    IN  IF /\ s[1] \in { "[", "(" }
           /\ n + 2 <= Len(s)
           /\ s[n + 2] \in { "]", ")" }
           /\ dot > 1
           /\ dot < n
           /\ \A i \in (dot + 1)..n : run[i] \in WordChars
        THEN run
        ELSE <<>>

RECURSIVE Labels(_)
\* re.findall(r'[\[\(]([\w/.-]+\.\w+)[\]\)]', mermaid)
Labels(s) ==
    IF s = <<>> THEN <<>>
    ELSE IF LabelAt(s) # <<>>
    THEN <<LabelAt(s)>> \o Labels(SubSeq(s, Len(LabelAt(s)) + 3, Len(s)))
    ELSE Labels(Tail(s))

\* the fixed parts of the two warnings, each kept whole
WARN_SYNTAX ==
    "(!) Mermaid validation failed. Ensure graph TD/graph LR and node IDs are single-word alphanumeric/underscore."
WARN_FILES == "(!) Diagram references files not found in context: "
WARN_TAIL == ". This might be a hallucination."

\* the warning of the syntax check
SyntaxWarning == <<"\n", "\n", WARN_SYNTAX, "\n">>

\* the warning of the consistency check, with ', '.join(hallucinations)
FilesWarning(hallucinations) ==
    <<"\n", "\n", WARN_FILES>> \o Join(hallucinations, <<",", " ">>) \o <<WARN_TAIL, "\n">>

\* what _validate_mermaid appends to validated for one block (lines 150-186)
ValidateBlock(block, known) ==
    LET closed == Contains(block, FENCE)
        mermaid == IF closed THEN SplitOnce(block, FENCE)[1] ELSE block
        remainder == IF closed THEN SplitOnce(block, FENCE)[2] ELSE <<>>
        labels == Labels(mermaid)
        hallucinations == SelectSeq(labels, LAMBDA label : label \notin known)
    IN  IF ~IsMermaidValid(mermaid)
        THEN mermaid \o SyntaxWarning \o FENCE \o remainder
        ELSE IF hallucinations # <<>>
        THEN mermaid \o FENCE \o FilesWarning(hallucinations) \o remainder
        ELSE mermaid \o FENCE \o remainder

\* _validate_mermaid(text, valid_filenames)
ValidateMermaid(text0, known) ==
    IF ~Contains(text0, MERMAID_FENCE) THEN text0
    ELSE LET blocks == SplitOn(text0, MERMAID_FENCE)
             validated == [i \in DOMAIN blocks |->
                              IF i = 1 THEN blocks[1] ELSE ValidateBlock(blocks[i], known)]
         IN  Join(validated, MERMAID_FENCE)

\* the pieces the generated texts of the model are put together from: a fence
\* that opens a block with and without a diagram header, a node labelled
\* with a path of the context, an edge to a node labelled with another path,
\* a node whose identifier has a hyphen, a closing fence, a line of prose
SEG_OPEN_GRAPH == MERMAID_FENCE \o <<"\n", "g", "r", "a", "p", "h", " ", "T", "D", "\n">>
SEG_OPEN == MERMAID_FENCE \o <<"\n">>
SEG_KNOWN == <<"A", "[", "a", ".", "p", "y", "]", "\n">>
SEG_UNKNOWN == <<"A", "-", "-", ">", "B", "(", "m", "/", "f", ".", "p", "y", ")", "\n">>
SEG_BAD_ID == <<"a", "-", "b", "\n">>
SEG_CLOSE == FENCE \o <<"\n">>
SEG_PROSE == <<"o", "k", "\n">>

Segments ==
    { SEG_OPEN_GRAPH, SEG_OPEN, SEG_KNOWN, SEG_UNKNOWN, SEG_BAD_ID, SEG_CLOSE, SEG_PROSE }

\* the paths of the two labels
LABEL_KNOWN == <<"a", ".", "p", "y">>
LABEL_UNKNOWN == <<"m", "/", "f", ".", "p", "y">>

\* the generated texts: up to MaxSegs pieces, one after the other
Texts == { Flatten(segs) : segs \in SeqsUpTo(Segments, MaxSegs) }

NotValidated == [status |-> "none"]

\* return _validate_mermaid(response.text, valid_filenames)
Validate ==
    /\ answer = NotValidated
    /\ answer' = [status |-> "returned", text |-> ValidateMermaid(response, valid_filenames)]
    /\ UNCHANGED <<response, valid_filenames>>
    /\ UNCHANGED <<chunkVars, graphVars, retrVars, cacheVars, buildVars, editVars, lazyVars, ingestVars, chatVars>>

ValidateInit ==
    /\ ChatIdle
    /\ IngestIdle
    /\ LazyIdle
    /\ EditIdle
    /\ BuildIdle
    /\ ChunkerIdle
    /\ GraphIdle
    /\ RetrieveIdle
    /\ CacheIdle
    /\ response \in Texts
    /\ valid_filenames \in { {}, { LABEL_KNOWN } }
    /\ answer = NotValidated

NextValidate == Validate

SpecValidate == ValidateInit /\ [][NextValidate]_vars

-----------------------------------------------------------------------------
(* Chunk build: _iter_files, build_chunks *)

MAX_FILE_SIZE_BYTES == 200000

D_PDF == <<"d", ".", "p", "d", "f">>
DOT_PDF == <<".", "p", "d", "f">>

\* directory names the walk does not descend into (retrieval.py line 58)
PrunedDirs ==
    { <<".","g","i","t">>,
      <<"n","o","d","e","_","m","o","d","u","l","e","s">>,
      <<"_","_","p","y","c","a","c","h","e","_","_">>,
      <<".","v","e","n","v">>,
      <<"d","i","s","t">>,
      <<"b","u","i","l","d">> }

\* file names skipped by name (retrieval.py line 61)
RepomixNames ==
    { <<"r","e","p","o","m","i","x","-","o","u","t","p","u","t",".","t","x","t">>,
      <<"r","e","p","o","m","i","x","-","o","u","t","p","u","t",".","x","m","l">> }

\* the directories a relative path lies in
DirsOf(p) ==
    LET parts == SplitOn(p, <<"/">>)
    IN  { parts[i] : i \in 1..(Len(parts) - 1) }

\* a file the walk reaches and does not skip by name (retrieval.py lines 54-62)
IsWalked(p) ==
    /\ DirsOf(p) \cap PrunedDirs = {}
    /\ Basename(p) \notin RepomixNames

\* one line of a file, as text
LineText(l) ==
    CASE l.kind = "py" -> <<"i","m","p","o","r","t"," ">> \o l.arg \o <<"\n">>
      [] l.kind = "pyind" -> <<" "," ","i","m","p","o","r","t"," ">> \o l.arg \o <<"\n">>
      [] l.kind = "js" -> <<"e","x","p","o","r","t"," ","*"," ","f","r","o","m"," ","'">>
                              \o l.arg \o <<"'","\n">>
      [] l.kind = "raw" -> l.arg

\* what read_text returns for a file
FileText(file) == Flatten([i \in DOMAIN file.content |-> LineText(file.content[i])])

\* st_size of a file
StatSize(file) == Len(FileText(file))

RECURSIVE SplitLines(_)
\* text.splitlines(keepends=True)
SplitLines(text) ==
    LET i == FirstIndex(text, <<"\n">>)
    IN  IF text = <<>> THEN <<>>
        ELSE IF i = 0 THEN <<text>>
        ELSE <<SubSeq(text, 1, i)>> \o SplitLines(SubSeq(text, i + 1, Len(text)))

RECURSIVE ChunkLinesFrom(_, _, _, _)
\* what _chunk_lines yields from the window that begins at s
ChunkLinesFrom(ls, s, size, overlap) ==
    LET e == Min(s + size, Len(ls))
        chunk_text == Strip(Flatten(PySlice(ls, s, e)))
        this == IF chunk_text # <<>> THEN << <<s + 1, e, chunk_text>> >> ELSE <<>>
    IN  IF s >= Len(ls) THEN <<>>
        ELSE IF e = Len(ls) THEN this
        ELSE this \o ChunkLinesFrom(ls, Max(e - overlap, 0), size, overlap)

\* the chunks of one file (retrieval.py lines 93-102)
ChunksOfFile(p, text, size, overlap) ==
    LET cs == ChunkLinesFrom(SplitLines(text), 0, size, overlap)
    IN  [i \in DOMAIN cs |->
            [path |-> p, start_line |-> cs[i][1], end_line |-> cs[i][2], text |-> cs[i][3]]]

\* _read_pdf: any failure of the extraction gives the empty text
ReadPdf(file) == IF file.readable THEN FileText(file) ELSE <<>>

RECURSIVE BuildChunksFrom(_, _, _, _, _, _)
\* build_chunks, from the files the walk has still to list
BuildChunksFrom(tree, order, failing, chunks, size, overlap) ==
    IF order = <<>> THEN [status |-> "returned", chunks |-> chunks]
    ELSE LET p == Head(order)
             rest == Tail(order)
         IN  IF ~IsWalked(p)
             THEN BuildChunksFrom(tree, rest, failing, chunks, size, overlap)
             ELSE IF p \in failing
             THEN [status |-> "raised", error |-> "OSError"]
             ELSE IF StatSize(tree[p]) > MAX_FILE_SIZE_BYTES
             THEN BuildChunksFrom(tree, rest, failing, chunks, size, overlap)
             ELSE IF Suffix(p) = DOT_PDF
             THEN BuildChunksFrom(tree, rest, failing,
                      chunks \o ChunksOfFile(p, ReadPdf(tree[p]), size, overlap),
                      size, overlap)
             ELSE IF ~tree[p].readable
             THEN BuildChunksFrom(tree, rest, failing, chunks, size, overlap)
             ELSE BuildChunksFrom(tree, rest, failing,
                      chunks \o ChunksOfFile(p, FileText(tree[p]), size, overlap),
                      size, overlap)

\* the contents a file of the model may have: nothing, or one import
ContentsOf(p) ==
    { <<>> } \cup { <<l>> : l \in { m \in ImportLines :
                                      (m.kind = "js") <=> (Suffix(p) # DOT_PY) } }

\* the repositories a build is run on
BuildRepos ==
    UNION { { [p \in S |-> [content |-> c[p], readable |-> TRUE]] :
                c \in { f \in [S -> UNION { ContentsOf(p) : p \in S }] :
                          \A p \in S : f[p] \in ContentsOf(p) } } :
            S \in { T \in SUBSET (PathUniverse \cup {D_PDF}) : Cardinality(T) <= MaxFiles } }

\* the stat of one file starts to fail (a broken link, a file deleted during
\* the walk, a permission error)
MakeUnstatable(p) ==
    /\ p \in DOMAIN fs
    /\ unstatable = {}
    /\ \A q \in DOMAIN fs : fs[q].readable
    /\ unstatable' = {p}
    /\ UNCHANGED buildOut
    /\ UNCHANGED <<chunkVars, graphVars, retrVars, cacheVars, valVars, editVars, lazyVars, ingestVars, chatVars>>

\* build_chunks(REPO); the outcome is kept with the tree it was run on
BuildChunks ==
    /\ \E order \in WalkOrders(fs) :
          buildOut' = BuildChunksFrom(fs, order, unstatable, <<>>,
                                      CHUNK_LINE_SIZE, CHUNK_OVERLAP)
                          @@ [tree |-> fs, failing |-> unstatable]
    /\ UNCHANGED unstatable
    /\ UNCHANGED <<chunkVars, graphVars, retrVars, cacheVars, valVars, editVars, lazyVars, ingestVars, chatVars>>

\* the paths the graph is asked about during a build
BuildQueries == { A_PY, B_PY }

BuildInit ==
    /\ ChatIdle
    /\ IngestIdle
    /\ LazyIdle
    /\ EditIdle
    /\ ChunkerIdle
    /\ RetrieveIdle
    /\ CacheIdle
    /\ ValidateIdle
    /\ fs \in BuildRepos
    /\ GRAPH_CACHE = <<>>
    /\ relQuery = <<>>
    /\ relResult = <<>>
    /\ unstatable = {}
    /\ buildOut = [status |-> "none"]

NextBuild ==
    \/ \E p \in PathUniverse \cup {D_PDF} : MakeUnreadable(p) /\ unstatable = {}
    \/ \E p \in PathUniverse \cup {D_PDF} : MakeUnstatable(p)
    \/ BuildChunks
    \/ \E q \in BuildQueries : GetRelatedFiles(q)

SpecBuild == BuildInit /\ [][NextBuild]_vars

-----------------------------------------------------------------------------
(* The repository changes while the process runs *)

\* a file is added to the repository
RepoAddFile(p, c) ==
    /\ p \notin DOMAIN fs
    /\ Cardinality(DOMAIN fs) < MaxFiles
    /\ c \in ContentsOf(p)
    /\ fs' = [q \in DOMAIN fs \cup {p} |->
                 IF q = p THEN [content |-> c, readable |-> TRUE] ELSE fs[q]]
    /\ UNCHANGED <<GRAPH_CACHE, relQuery, relResult>>
    /\ UNCHANGED <<chunkVars, retrVars, cacheVars, valVars, buildVars, editVars, lazyVars, ingestVars, chatVars>>

\* a file is deleted
RepoDeleteFile(p) ==
    /\ p \in DOMAIN fs
    /\ fs' = [q \in DOMAIN fs \ {p} |-> fs[q]]
    /\ UNCHANGED <<GRAPH_CACHE, relQuery, relResult>>
    /\ UNCHANGED <<chunkVars, retrVars, cacheVars, valVars, buildVars, editVars, lazyVars, ingestVars, chatVars>>

\* a file is edited
RepoEditFile(p, c) ==
    /\ p \in DOMAIN fs
    /\ c \in ContentsOf(p)
    /\ c # fs[p].content
    /\ fs' = [fs EXCEPT ![p].content = c]
    /\ UNCHANGED <<GRAPH_CACHE, relQuery, relResult>>
    /\ UNCHANGED <<chunkVars, retrVars, cacheVars, valVars, buildVars, editVars, lazyVars, ingestVars, chatVars>>

\* every content a file of the model may have
AllContents == UNION { ContentsOf(p) : p \in PathUniverse }

MemoInit ==
    /\ ChatIdle
    /\ IngestIdle
    /\ LazyIdle
    /\ ChunkerIdle
    /\ RetrieveIdle
    /\ CacheIdle
    /\ ValidateIdle
    /\ BuildIdle
    /\ EditIdle
    /\ fs \in { t \in BuildRepos : DOMAIN t \subseteq PathUniverse }
    /\ GRAPH_CACHE = <<>>
    /\ relQuery = <<>>
    /\ relResult = <<>>

NextMemo ==
    \/ \E p \in PathUniverse, c \in AllContents : RepoAddFile(p, c)
    \/ \E p \in PathUniverse : RepoDeleteFile(p)
    \/ \E p \in PathUniverse, c \in AllContents : RepoEditFile(p, c)
    \/ \E q \in BuildQueries : GetRelatedFiles(q)

SpecMemo == MemoInit /\ [][NextMemo]_vars

-----------------------------------------------------------------------------
(* Build, save and build again: the cache directory lies inside the repository *)

\* DEFAULT_CACHE_DIR as the walk reports it: a directory of the repository root
CACHE_REL == <<".", "r", "a", "g", "_", "c", "a", "c", "h", "e">>

\* the file name save_index derives from the fingerprint (the hex digest, shortened)
KeyChars(repo_url) == IF repo_url = "None" THEN <<"k", "0">> ELSE <<"k", "1">>

\* str(path.relative_to(repo_root)) of the two files save_index writes
MetaRel(repo_url) == CACHE_REL \o <<"/">> \o KeyChars(repo_url) \o <<".", "j", "s", "o", "n">>
EmbRel(repo_url) == CACHE_REL \o <<"/">> \o KeyChars(repo_url) \o <<".", "n", "p", "y">>

\* the text json.dumps(metadata) writes for one chunk (the keys, which hold no character to
\* escape or to split a line at, are kept whole)
ChunkJson(item) ==
    <<"{", "\"path\": ">> \o item.path \o <<", ", "\"start_line\": ">> \o item.start_line
        \o <<", ", "\"end_line\": ">> \o item.end_line \o <<", ", "\"text\": ">> \o item.text \o <<"}">>

RECURSIVE JoinJson(_)
\* ", ".join(items)
JoinJson(items) ==
    IF items = <<>> THEN <<>>
    ELSE IF Len(items) = 1 THEN items[1]
    ELSE items[1] \o <<", ">> \o JoinJson(Tail(items))

\* what read_text returns for the metadata file
MetaText(doc) ==
    <<"{", "\"chunks\": ", "[">> \o JoinJson([i \in DOMAIN doc.chunks |-> ChunkJson(doc.chunks[i])])
        \o <<"]", ", ", "\"collection_name\": ", "\"", doc.collection_name, "\"", ", ",
              "\"collection_path\": ", "\"", doc.collection_path, "\"", "}">>

\* what read_text(errors="ignore") returns for the .npy file: the magic word and the
\* header with the shape survive
NpyText(f) == <<"N", "U", "M", "P", "Y">> \o <<ToString(f.shape[1]), ToString(f.shape[2])>>

\* the repository as os.walk sees it: its files and the files the cache holds
WholeTree ==
    LET cached == { u \in UrlSet : MetaPath(REPO, u) \in DOMAIN disk }
        saved == { u \in UrlSet : EmbPath(REPO, u) \in DOMAIN disk }
        raw(t) == [content |-> << [kind |-> "raw", arg |-> t] >>, readable |-> TRUE]
    IN  [p \in DOMAIN fs \cup { MetaRel(u) : u \in cached } \cup { EmbRel(u) : u \in saved } |->
            IF p \in DOMAIN fs THEN fs[p]
            ELSE IF \E u \in cached : p = MetaRel(u)
            THEN raw(MetaText(disk[MetaPath(REPO, CHOOSE u \in cached : p = MetaRel(u))]))
            ELSE raw(NpyText(disk[EmbPath(REPO, CHOOSE u \in saved : p = EmbRel(u))]))]

\* how many builds the outcome kept is the result of
Builds == IF buildOut.status = "none" THEN 0 ELSE buildOut.n

\* build_index(REPO): build_chunks over the tree as it is, cache files included
RebuildIndex ==
    /\ Builds < MaxBuilds
    /\ \E order \in WalkOrders(WholeTree) :
          LET r == BuildChunksFrom(WholeTree, order, {}, <<>>, CHUNK_LINE_SIZE, CHUNK_OVERLAP)
          IN  /\ buildOut' = r @@ [tree |-> WholeTree, failing |-> {}, n |-> Builds + 1]
              /\ idx' = BuiltIndex(r.chunks, [i \in DOMAIN r.chunks |-> <<1, 0>>])
              /\ MODEL' = (MODEL \/ r.chunks # <<>>)
    /\ UNCHANGED <<RANKER, chromadb, store, ret, unstatable>>
    /\ UNCHANGED <<chunkVars, graphVars, cacheVars, valVars, editVars, lazyVars, ingestVars, chatVars>>

\* the repositories: a.py and p/b.py, with or without an import
RebuildRepos == { t \in BuildRepos : DOMAIN t \subseteq { A_PY, P_B_PY } }

RebuildInit ==
    /\ ChatIdle
    /\ IngestIdle
    /\ LazyIdle
    /\ EditIdle
    /\ ChunkerIdle
    /\ ValidateIdle
    /\ fs \in RebuildRepos
    /\ GRAPH_CACHE = <<>>
    /\ relQuery = <<>>
    /\ relResult = <<>>
    /\ unstatable = {}
    /\ buildOut = [status |-> "none"]
    /\ idx = BuiltIndex(<<>>, <<>>)
    /\ MODEL = FALSE
    /\ RANKER = FALSE
    /\ chromadb = FALSE
    /\ store = NoStore
    /\ ret = NoResult
    /\ disk = <<>>
    /\ cacheLog = <<>>

\* the one repo_url the repository is ingested under
RebuildUrls == { "u" }

NextRebuild ==
    \/ RebuildIndex
    \/ \E repo_url \in RebuildUrls : SaveIndex(repo_url)
    \/ \E repo_url \in RebuildUrls : LoadIndex(repo_url)

SpecRebuild == RebuildInit /\ [][NextRebuild]_vars

-----------------------------------------------------------------------------
(* Repositories with look-alike file names *)

AB_PY == <<"a", "b", ".", "p", "y">>
XC_TS == <<"x", "c", ".", "t", "s">>

\* a.py, its look-alikes ab.py and p/b.py, and the same for TypeScript
LinkPaths == { A_PY, B_PY, AB_PY, P_B_PY, C_TS, XC_TS }

\* the trees: up to four files, a.py may import a or b, xc.ts may import ./c
LinkRepos ==
    { t \in UNION { [D -> [content : {<<>>} \cup { <<l>> : l \in ImportLines },
                           readable : {TRUE}]] :
                    D \in { S \in SUBSET LinkPaths : Cardinality(S) \in 1..4 } } :
        \A q \in DOMAIN t :
            /\ t[q].content # <<>> => q \in { A_PY, XC_TS }
            /\ \A i \in DOMAIN t[q].content :
                  /\ t[q].content[i].kind # "pyind"
                  /\ (t[q].content[i].kind = "js") <=> (q = XC_TS) }

LinkInit ==
    /\ ChatIdle
    /\ IngestIdle
    /\ LazyIdle
    /\ EditIdle
    /\ BuildIdle
    /\ ValidateIdle
    /\ ChunkerIdle
    /\ RetrieveIdle
    /\ CacheIdle
    /\ fs \in LinkRepos
    /\ GRAPH_CACHE = <<>>
    /\ relQuery = <<>>
    /\ relResult = <<>>

NextLink == \E q \in LinkPaths : GetRelatedFiles(q)

SpecLink == LinkInit /\ [][NextLink]_vars

-----------------------------------------------------------------------------
(* Editor: apply_code_patch, and the /apply endpoint *)

SLASH == <<"/">>
CURDIR == <<".">>
PARDIR == <<".", ".">>

\* os.path.join(a, b): an absolute b replaces a
PathJoin(a, b) ==
    IF StartsWith(b, SLASH) THEN b
    ELSE IF a = <<>> \/ EndsWith(a, SLASH) THEN a \o b
    ELSE a \o SLASH \o b

RECURSIVE NormComps(_, _)
\* os.path.normpath, on the segments of an absolute path: empty and "."
\* segments are dropped, ".." removes the segment before it (none at the root)
NormComps(comps, acc) ==
    IF comps = <<>> THEN acc
    ELSE LET c == Head(comps)
         IN  IF c = <<>> \/ c = CURDIR THEN NormComps(Tail(comps), acc)
             ELSE IF c = PARDIR
             THEN NormComps(Tail(comps),
                            IF acc = <<>> THEN <<>> ELSE SubSeq(acc, 1, Len(acc) - 1))
             ELSE NormComps(Tail(comps), Append(acc, c))

\* os.path.abspath of an absolute path, as the sequence of its segments
AbsPath(s) == NormComps(SplitOn(s, SLASH), <<>>)

IsLink(tree, p) == p \in DOMAIN tree /\ tree[p].kind = "link"
IsDir(tree, p) == p = <<>> \/ (p \in DOMAIN tree /\ tree[p].kind = "dir")
IsFile(tree, p) == p \in DOMAIN tree /\ tree[p].kind = "file"
PathExists(tree, p) == p = <<>> \/ p \in DOMAIN tree

RECURSIVE RealPath(_, _, _)
\* os.path.realpath: the segments are taken one at a time, and a symbolic link
\* is replaced by its target, whether the target exists or not
RealPath(tree, resolved, rest) ==
    IF rest = <<>> THEN resolved
    ELSE LET cand == Append(resolved, Head(rest))
         IN  IF IsLink(tree, cand)
             THEN RealPath(tree, <<>>, tree[cand].target \o Tail(rest))
             ELSE RealPath(tree, cand, Tail(rest))

\* a check that never finds a path outside
CommonPathFirst(a, b) == a

RECURSIVE CommonPath(_, _)
\* os.path.commonpath([a, b]): the longest common sequence of leading segments
CommonPath(a, b) ==
    IF a # <<>> /\ b # <<>> /\ Head(a) = Head(b)
    THEN <<Head(a)>> \o CommonPath(Tail(a), Tail(b))
    ELSE <<>>

\* os.path.dirname
ParentDir(p) == IF p = <<>> THEN <<>> ELSE SubSeq(p, 1, Len(p) - 1)

\* the leading parts of a path, the path itself included
Prefixes(p) == { SubSeq(p, 1, n) : n \in 1..Len(p) }

\* os.makedirs(p, exist_ok=True): the missing directories are made, unless
\* something on the way is not a directory
MakeDirs(tree, p) ==
    IF \E q \in Prefixes(p) : PathExists(tree, q) /\ ~IsDir(tree, q)
    THEN [raised |-> "OSError", tree |-> tree]
    ELSE [raised |-> "None",
          tree |-> [q \in DOMAIN tree \cup Prefixes(p) |->
                       IF q \in DOMAIN tree THEN tree[q] ELSE [kind |-> "dir"]]]

\* open(p, "w") and f.write(content)
WriteFile(tree, p, content) ==
    IF IsDir(tree, p) \/ ~IsDir(tree, ParentDir(p))
    THEN [raised |-> "OSError", tree |-> tree]
    ELSE [raised |-> "None",
          tree |-> [q \in DOMAIN tree \cup {p} |->
                       IF q = p THEN [kind |-> "file", content |-> content]
                       ELSE tree[q]]]

\* apply_code_patch(repo_path, file_rel_path, content) for an absolute
\* repo_path: what it raises, and the file system it leaves
ApplyCodePatch(tree, repo_path, file_rel_path, content) ==
    LET repo_abs == AbsPath(repo_path)
        full_path == AbsPath(PathJoin(repo_path, file_rel_path))
        repo_real == RealPath(tree, <<>>, repo_abs)
        full_real == RealPath(tree, <<>>, full_path)
        common == CommonPath(repo_real, full_real)
        parent_dir == ParentDir(full_real)
        made == IF ~PathExists(tree, parent_dir)
                THEN MakeDirs(tree, parent_dir)
                ELSE [raised |-> "None", tree |-> tree]
    IN  IF common # repo_real THEN [raised |-> "ValueError", tree |-> tree]
        ELSE IF made.raised # "None" THEN made
        ELSE WriteFile(made.tree, full_real, content)

\* the paths of the model, by their segments
NAME_R == <<"r">>
NAME_O == <<"o">>
NAME_A == <<"a">>
NAME_D == <<"d">>
NAME_S == <<"s">>
NAME_L == <<"l">>
NAME_K == <<"k">>

\* current_repo once a repository is ingested
REPO_DIR == <<"/", "r">>

ORIGINAL == <<"o", "l", "d">>

\* the repository /r with a file and a directory, and /o/s beside it
BaseTree ==
    [p \in { <<NAME_R>>, <<NAME_R, NAME_A>>, <<NAME_R, NAME_D>>, <<NAME_O>>, <<NAME_O, NAME_S>> } |->
        IF p \in { <<NAME_R, NAME_A>>, <<NAME_O, NAME_S>> }
        THEN [kind |-> "file", content |-> ORIGINAL]
        ELSE [kind |-> "dir"]]

\* where the link /r/l may point: a file outside, nothing outside, a file
\* inside, nothing inside
FileLinkTargets ==
    { <<NAME_O, NAME_S>>, <<NAME_O, <<"h">>>>, <<NAME_R, NAME_A>>, <<NAME_R, <<"z">>, <<"n">>>> }

\* where the link /r/k may point: a directory outside, a directory inside
DirLinkTargets == { <<NAME_O>>, <<NAME_R, NAME_D>> }

WithLink(tree, p, target) ==
    [q \in DOMAIN tree \cup {p} |->
        IF q = p THEN [kind |-> "link", target |-> target] ELSE tree[q]]

\* the file systems an /apply request may find: at most one link
EditTrees ==
    { BaseTree }
        \cup { WithLink(BaseTree, <<NAME_R, NAME_L>>, t) : t \in FileLinkTargets }
        \cup { WithLink(BaseTree, <<NAME_R, NAME_K>>, u) : u \in DirLinkTargets }

\* the file_path values of the requests
FilePaths ==
    { <<"a">>, <<"d", "/", "n">>, <<"m", "/", "n">>,
      <<".", "/", "a">>, <<"d", "/", ".", ".", "/", "a">>,
      <<".", ".", "/", "h">>, <<".", ".", "/", "o", "/", "s">>,
      <<"d", "/", ".", ".", "/", ".", ".", "/", "h">>,
      <<"/", "o", "/", "s">>, <<"/", "r", "/", "a">>,
      <<"l">>, <<"k", "/", "n">>,
      <<>>, <<"d">>, <<"a", "/", "n">> }

\* the content values of the requests
Contents == { <<"x">>, <<"y", "\n">> }

\* POST /apply (main.py lines 282-294)
ApplyFix(file_path, content) ==
    /\ IF current_repo = <<>>
       THEN /\ efs' = efs
            /\ applyOut' = [status |-> 400, raised |-> "None",
                            file_path |-> file_path, content |-> content]
       ELSE LET r == ApplyCodePatch(efs, current_repo, file_path, content)
            IN  /\ efs' = r.tree
                /\ applyOut' = [status |-> CASE r.raised = "None" -> 200
                                             [] r.raised = "ValueError" -> 400
                                             [] OTHER -> 500,
                                raised |-> r.raised,
                                file_path |-> file_path, content |-> content]
    /\ UNCHANGED current_repo
    /\ UNCHANGED <<chunkVars, graphVars, retrVars, cacheVars, valVars, buildVars, lazyVars, ingestVars, chatVars>>

EditInit ==
    /\ ChatIdle
    /\ IngestIdle
    /\ LazyIdle
    /\ ChunkerIdle
    /\ GraphIdle
    /\ RetrieveIdle
    /\ CacheIdle
    /\ ValidateIdle
    /\ BuildIdle
    /\ efs \in EditTrees
    /\ current_repo \in { <<>>, REPO_DIR }
    /\ applyOut = [status |-> 0]

NextEdit == \E file_path \in FilePaths, content \in Contents : ApplyFix(file_path, content)

SpecEdit == EditInit /\ [][NextEdit]_vars

-----------------------------------------------------------------------------
(* Lazily initialised handles: _get_model, the ranker of retrieve, get_repo_graph *)

\* the request threads of the server's pool
Threads == { "t1", "t2" }

\* the module globals: _MODEL, _RANKER, and the entry of _GRAPH_CACHE for one repo_path
Handles == { "_MODEL", "_RANKER", "_GRAPH_CACHE" }

None == 0

\* `if _MODEL is None`, `if _RANKER is None`, `if repo_path in _GRAPH_CACHE`: the handle is set
\* and the caller goes on with it
LazyHit(t, h) ==
    /\ thr[t].pc = "idle"
    /\ memo[h] # None
    /\ given' = given \cup { <<h, memo[h]>> }
    /\ UNCHANGED <<memo, nmade, thr>>
    /\ UNCHANGED <<chunkVars, graphVars, retrVars, cacheVars, valVars, buildVars, editVars, ingestVars, chatVars>>

\* the same test when the handle is not set: the caller goes on to construct the object
LazyMiss(t, h) ==
    /\ thr[t].pc = "idle"
    /\ memo[h] = None
    /\ thr' = [thr EXCEPT ![t] = [pc |-> "construct", h |-> h, obj |-> None]]
    /\ UNCHANGED <<memo, nmade, given>>
    /\ UNCHANGED <<chunkVars, graphVars, retrVars, cacheVars, valVars, buildVars, editVars, ingestVars, chatVars>>

\* SentenceTransformer(...), CrossEncoder(...), build_knowledge_graph(...) and the adjacency
\* list: a new object, held in a local until it is assigned
LazyConstruct(t) ==
    /\ thr[t].pc = "construct"
    /\ nmade[thr[t].h] < MaxObjects
    /\ nmade' = [nmade EXCEPT ![thr[t].h] = @ + 1]
    /\ thr' = [thr EXCEPT ![t].pc = "assign", ![t].obj = nmade[thr[t].h] + 1]
    /\ UNCHANGED <<memo, given>>
    /\ UNCHANGED <<chunkVars, graphVars, retrVars, cacheVars, valVars, buildVars, editVars, ingestVars, chatVars>>

\* the ranker cannot be loaded: `except Exception: _RANKER = None`, and the caller goes on
\* without a ranker
LazyConstructFails(t) ==
    /\ thr[t].pc = "construct"
    /\ thr[t].h = "_RANKER"
    /\ memo' = [memo EXCEPT !["_RANKER"] = None]
    /\ thr' = [thr EXCEPT ![t].pc = "idle"]
    /\ UNCHANGED <<nmade, given>>
    /\ UNCHANGED <<chunkVars, graphVars, retrVars, cacheVars, valVars, buildVars, editVars, ingestVars, chatVars>>

\* _MODEL = ..., _RANKER = ..., _GRAPH_CACHE[repo_path] = adj_list
LazyAssign(t) ==
    /\ thr[t].pc = "assign"
    /\ memo' = [memo EXCEPT ![thr[t].h] = thr[t].obj]
    /\ thr' = [thr EXCEPT ![t].pc = "return"]
    /\ UNCHANGED <<nmade, given>>
    /\ UNCHANGED <<chunkVars, graphVars, retrVars, cacheVars, valVars, buildVars, editVars, ingestVars, chatVars>>

\* what the caller goes on with: `return _MODEL` and `if _RANKER:` read the global again,
\* `return adj_list` returns the local
LazyReturn(t) ==
    /\ thr[t].pc = "return"
    /\ LET h == thr[t].h
           o == IF h = "_GRAPH_CACHE" THEN thr[t].obj ELSE memo[h]
       IN  given' = IF o = None THEN given ELSE given \cup { <<h, o>> }
    /\ thr' = [thr EXCEPT ![t].pc = "idle"]
    /\ UNCHANGED <<memo, nmade>>
    /\ UNCHANGED <<chunkVars, graphVars, retrVars, cacheVars, valVars, buildVars, editVars, ingestVars, chatVars>>

LazyInit ==
    /\ ChatIdle
    /\ IngestIdle
    /\ ChunkerIdle
    /\ GraphIdle
    /\ RetrieveIdle
    /\ CacheIdle
    /\ ValidateIdle
    /\ BuildIdle
    /\ EditIdle
    /\ memo = [h \in Handles |-> None]
    /\ nmade = [h \in Handles |-> 0]
    /\ thr = [t \in Threads |-> [pc |-> "idle", h |-> "_MODEL", obj |-> None]]
    /\ given = {}

NextLazy ==
    \E t \in Threads :
        \/ \E h \in Handles : LazyHit(t, h)
        \/ \E h \in Handles : LazyMiss(t, h)
        \/ LazyConstruct(t)
        \/ LazyConstructFails(t)
        \/ LazyAssign(t)
        \/ LazyReturn(t)

SpecLazy == LazyInit /\ [][NextLazy]_vars

-----------------------------------------------------------------------------
(* The /ingest endpoint: ingest_endpoint and APP_STATE *)

\* the repositories asked for
IngestUrls == { <<"u", "1">>, <<"u", "2">> }

\* target_dir of clone_repo: a new directory for every clone (uuid4 in its name)
CloneDir(n) == <<"/", "t", "m", "p", "/">> \o JsonDumpsInt(n)

\* what run_repomix packs from the clone of a repository
Packed(repo_url) == <<"p", "a", "c", "k", " ">> \o repo_url

\* a request thread between two requests
IngestReady == [pc |-> "idle"]

\* steps 1 to 3 of ingest_endpoint succeed: the clone is made and packed
IngestClone(t, repo_url) ==
    /\ ingest[t].pc = "idle"
    /\ Cardinality(DOMAIN clones) < MaxRequests
    /\ LET repo_path == CloneDir(Cardinality(DOMAIN clones) + 1)
           packed_content == Packed(repo_url)
       IN  /\ clones' = [d \in DOMAIN clones \cup {repo_path} |->
                            IF d = repo_path
                            THEN [repo_url |-> repo_url, packed_content |-> packed_content]
                            ELSE clones[d]]
           /\ ingest' = [ingest EXCEPT ![t] = [pc |-> "content", repo_url |-> repo_url,
                                               repo_path |-> repo_path,
                                               packed_content |-> packed_content]]
    /\ UNCHANGED <<current_repo_content, current_repo, current_repo_url>>
    /\ UNCHANGED <<efs, applyOut>>
    /\ UNCHANGED <<chunkVars, graphVars, retrVars, cacheVars, valVars, buildVars, lazyVars, chatVars>>

\* clone_repo or run_repomix raises, or nothing is packed: the request is answered 500
IngestFails(t, repo_url) ==
    /\ ingest[t].pc = "idle"
    /\ ingest' = [ingest EXCEPT ![t] = [pc |-> "idle", repo_url |-> repo_url, status |-> 500]]
    /\ UNCHANGED <<current_repo_content, current_repo, current_repo_url, clones>>
    /\ UNCHANGED <<efs, applyOut>>
    /\ UNCHANGED <<chunkVars, graphVars, retrVars, cacheVars, valVars, buildVars, lazyVars, chatVars>>

\* APP_STATE["current_repo_content"] = packed_content
IngestStoreContent(t) ==
    /\ ingest[t].pc = "content"
    /\ current_repo_content' = ingest[t].packed_content
    /\ ingest' = [ingest EXCEPT ![t].pc = "repo"]
    /\ UNCHANGED <<current_repo, current_repo_url, clones>>
    /\ UNCHANGED <<efs, applyOut>>
    /\ UNCHANGED <<chunkVars, graphVars, retrVars, cacheVars, valVars, buildVars, lazyVars, chatVars>>

\* APP_STATE["current_repo"] = repo_path
IngestStoreRepo(t) ==
    /\ ingest[t].pc = "repo"
    /\ current_repo' = ingest[t].repo_path
    /\ ingest' = [ingest EXCEPT ![t].pc = "url"]
    /\ UNCHANGED <<current_repo_content, current_repo_url, clones>>
    /\ UNCHANGED <<efs, applyOut>>
    /\ UNCHANGED <<chunkVars, graphVars, retrVars, cacheVars, valVars, buildVars, lazyVars, chatVars>>

\* APP_STATE["current_repo_url"] = request.repo_url, and the request is answered 200
IngestStoreUrl(t) ==
    /\ ingest[t].pc = "url"
    /\ current_repo_url' = ingest[t].repo_url
    /\ ingest' = [ingest EXCEPT ![t] = [pc |-> "idle", repo_url |-> ingest[t].repo_url,
                                        status |-> 200]]
    /\ UNCHANGED <<current_repo_content, current_repo, clones>>
    /\ UNCHANGED <<efs, applyOut>>
    /\ UNCHANGED <<chunkVars, graphVars, retrVars, cacheVars, valVars, buildVars, lazyVars, chatVars>>

IngestInit ==
    /\ ChatIdle
    /\ ChunkerIdle
    /\ GraphIdle
    /\ RetrieveIdle
    /\ CacheIdle
    /\ ValidateIdle
    /\ BuildIdle
    /\ EditIdle
    /\ LazyIdle
    /\ current_repo_content = <<>>
    /\ current_repo_url = <<>>
    /\ clones = <<>>
    /\ ingest = [t \in Threads |-> IngestReady]

NextIngest ==
    \E t \in Threads :
        \/ \E repo_url \in IngestUrls : IngestClone(t, repo_url)
        \/ \E repo_url \in IngestUrls : IngestFails(t, repo_url)
        \/ IngestStoreContent(t)
        \/ IngestStoreRepo(t)
        \/ IngestStoreUrl(t)

SpecIngest == IngestInit /\ [][NextIngest]_vars

-----------------------------------------------------------------------------
(* The chat context: format_chunks and the paths get_chat_response reads back *)

Q_PY == <<"q", "\"", ".", "p", "y">>
TEXT_TAG == <<"<", "F", "I", "L", "E", " ", "p", "a", "t", "h", "=", "\"", "z", ".", "p", "y", "\"", ">">>
Z_PY == <<"z", ".", "p", "y">>

\* the chunks retrieve may return: plain ones, one whose path holds a double quote, and one
\* whose text is a line of markup with a path attribute
SnippetSet ==
    { [path |-> p, start_line |-> 1, end_line |-> 2, text |-> t] :
        p \in { A_PY, B_PY, Q_PY }, t \in { TEXT5, TEXT3, TEXT_TAG } }

\* f'<FILE path="{chunk.path}" lines="{chunk.start_line}-{chunk.end_line}">\n{chunk.text}\n</FILE>'
FormatChunk(chunk) ==
    <<"<", "F", "I", "L", "E", " ", "p", "a", "t", "h", "=", "\"">> \o chunk.path
        \o <<"\"", " ", "l", "i", "n", "e", "s", "=", "\"">>
        \o JsonDumpsInt(chunk.start_line) \o <<"-">> \o JsonDumpsInt(chunk.end_line)
        \o <<"\"", ">", "\n">> \o chunk.text \o <<"\n", "<", "/", "F", "I", "L", "E", ">">>

\* format_chunks(chunks)
FormatChunks(chunks) == Join([i \in DOMAIN chunks |-> FormatChunk(chunks[i])], <<"\n", "\n">>)

PATH_ATTR == <<"p", "a", "t", "h", "=", "\"">>

RECURSIVE FindPaths(_)
\* set(re.findall(r'path="([^"]+)"', s)): the matches from left to right, none overlapping
FindPaths(s) ==
    LET i == FirstIndex(s, PATH_ATTR)
        rest == SubSeq(s, i + Len(PATH_ATTR), Len(s))
        q == FirstIndex(rest, <<"\"">>)
    IN  IF i = 0 \/ q = 0 THEN {}
        ELSE IF q = 1 THEN FindPaths(SubSeq(s, i + 1, Len(s)))
        ELSE { SubSeq(rest, 1, q - 1) } \cup FindPaths(SubSeq(rest, q + 1, Len(rest)))

\* snippet_context = format_chunks(snippets)   (routers/chat.py)
FormatSnippets ==
    /\ context.status = "none"
    /\ context' = [status |-> "formatted", text |-> FormatChunks(snippets)]
    /\ UNCHANGED <<snippets, valVars>>
    /\ UNCHANGED <<chunkVars, graphVars, retrVars, cacheVars, buildVars, editVars, lazyVars, ingestVars>>

\* get_chat_response: the paths of the context, then _validate_mermaid on the generated text
GetChatResponse ==
    /\ context.status = "formatted"
    /\ answer = NotValidated
    /\ valid_filenames' = FindPaths(context.text)
    /\ answer' = [status |-> "returned",
                  text |-> ValidateMermaid(response, FindPaths(context.text))]
    /\ UNCHANGED <<response, chatVars>>
    /\ UNCHANGED <<chunkVars, graphVars, retrVars, cacheVars, buildVars, editVars, lazyVars, ingestVars>>

\* the generated texts: a diagram that names a.py and m/f.py, and prose
ChatTexts == { SEG_OPEN_GRAPH \o SEG_KNOWN \o SEG_UNKNOWN \o SEG_CLOSE, SEG_PROSE }

ChatInit ==
    /\ IngestIdle
    /\ LazyIdle
    /\ EditIdle
    /\ BuildIdle
    /\ ChunkerIdle
    /\ GraphIdle
    /\ RetrieveIdle
    /\ CacheIdle
    /\ snippets \in SeqsUpTo(SnippetSet, MaxSnippets)
    /\ context = [status |-> "none"]
    /\ response \in ChatTexts
    /\ valid_filenames = {}
    /\ answer = NotValidated

NextChat == FormatSnippets \/ GetChatResponse

SpecChat == ChatInit /\ [][NextChat]_vars

-----------------------------------------------------------------------------
(* Chunker claims *)

\* the configuration the design calls valid: 0 <= overlapLines < maxLines
ValidConfig == 0 <= CHUNK_OVERLAP /\ CHUNK_OVERLAP < CHUNK_LINE_SIZE

\* line number i (1-based) lies in the range of some yielded chunk
Covered(i) == \E k \in DOMAIN out : out[k].start_line <= i /\ i <= out[k].end_line

\* line number i has a character that is not whitespace
HasText(i) == Strip(lines[i]) # <<>>

\* C3 (as amended): with a valid configuration, once the chunker has finished
\* every line that is not whitespace-only lies in the range of at least one
\* chunk, and every chunk yielded has start_line <= end_line.
C3_TextLinesCovered ==
    ValidConfig =>
        /\ \A k \in DOMAIN out : out[k].start_line <= out[k].end_line
        /\ cpc = "done" => \A i \in 1..total : HasText(i) => Covered(i)

\* C3 as stated: every line, blank ones included, is covered.
C3_AllLinesCovered ==
    (ValidConfig /\ cpc = "done") =>
        /\ \A k \in DOMAIN out : out[k].start_line <= out[k].end_line
        /\ \A i \in 1..total : Covered(i)

\* a finished run over a file with blank and text lines, overlapping windows
C3_Witness ==
    /\ cpc = "done"
    /\ ValidConfig
    /\ CHUNK_OVERLAP >= 1
    /\ Len(out) >= 2
    /\ \E i \in 1..total : ~HasText(i)
    /\ \E i \in 1..total : HasText(i)

\* the window (0-based index) that line i falls in when windows do not overlap
WindowOf(i) == (i - 1) \div CHUNK_LINE_SIZE

\* that window has a character that is not whitespace
WindowHasText(w) ==
    \E i \in 1..total : WindowOf(i) = w /\ HasText(i)

\* the ranges of the chunks are exactly a partition of 1..total into
\* consecutive ranges
ExactPartition ==
    /\ total >= 1 => (out # <<>> /\ out[1].start_line = 1 /\ out[Len(out)].end_line = total)
    /\ \A k \in DOMAIN out : out[k].start_line <= out[k].end_line
    /\ \A k \in 1..(Len(out) - 1) : out[k + 1].start_line = out[k].end_line + 1

\* C4 (as amended): with overlapLines = 0 and maxLines >= 1 the chunk ranges
\* are pairwise disjoint and increasing, each is one whole window
\* [k*maxLines + 1, min((k+1)*maxLines, N)], and a line is covered exactly
\* when its window has a non-whitespace character; so the ranges partition
\* 1..N exactly when no window is entirely whitespace.
C4_WindowsPartition ==
    (cpc = "done" /\ CHUNK_OVERLAP = 0 /\ CHUNK_LINE_SIZE >= 1) =>
        /\ \A j, k \in DOMAIN out : j < k => out[j].end_line < out[k].start_line
        /\ \A k \in DOMAIN out :
              /\ (out[k].start_line - 1) % CHUNK_LINE_SIZE = 0
              /\ out[k].end_line = Min(out[k].start_line + CHUNK_LINE_SIZE - 1, total)
        /\ \A i \in 1..total : Covered(i) <=> WindowHasText(WindowOf(i))
        /\ (\A i \in 1..total : WindowHasText(WindowOf(i))) => ExactPartition

\* C4 as stated: the ranges partition 1..N exactly, for every file.
C4_ExactPartition ==
    (cpc = "done" /\ CHUNK_OVERLAP = 0 /\ CHUNK_LINE_SIZE >= 1) => ExactPartition

\* a finished run without overlap that yielded several chunks, the last one
\* shorter than a window, around a window that is entirely whitespace
C4_Witness ==
    /\ cpc = "done"
    /\ CHUNK_OVERLAP = 0
    /\ CHUNK_LINE_SIZE >= 2
    /\ Len(out) >= 2
    /\ total % CHUNK_LINE_SIZE # 0
    /\ \E i \in 1..total : ~WindowHasText(WindowOf(i))

\* C5: the window start strictly advances on every iteration that does not
\* end the generator, for every configuration (so the chunker terminates).
C5_StartAdvances ==
    [][(cpc = "loop" /\ cpc' = "loop" /\ start < total) => start' > start]_vars

\* C6: a configuration violating 0 <= overlapLines < maxLines produces no
\* chunks (the build ends in a configuration error instead).
C6_InvalidConfigYieldsNothing == ~ValidConfig => out = <<>>

-----------------------------------------------------------------------------
(* Dependency graph claims *)

\* the adjacency memoized for the repository
Adj == GRAPH_CACHE[REPO]

\* C7: the adjacency built by get_repo_graph is symmetric: B is listed under
\* A exactly when A is listed under B, self-imports and repeated imports
\* included.
C7_AdjacencySymmetric ==
    REPO \in DOMAIN GRAPH_CACHE =>
        \A A, B \in PathUniverse :
            (B \in Neighbors(Adj, A)) <=> (A \in Neighbors(Adj, B))

\* a graph in which a.py imports itself and b.py: a.py is listed under a.py
\* more than once and under b.py
C7_Witness ==
    /\ REPO \in DOMAIN GRAPH_CACHE
    /\ A_PY \in DOMAIN Adj
    /\ B_PY \in DOMAIN Adj
    /\ Len(SelectSeq(Adj[A_PY], LAMBDA x : x = A_PY)) >= 2
    /\ B_PY \in Range(Adj[A_PY])
    /\ A_PY \in Range(Adj[B_PY])

IMPORT_B == <<"b">>

\* file A has a line the Python import pattern reads as an import of b, and
\* the graph builder looks at the file: it is a node and it can be read
ScansImportOfB(A) ==
    /\ A \in DOMAIN fs
    /\ Suffix(A) = DOT_PY
    /\ IsNode(A)
    /\ fs[A].readable
    /\ \E i \in DOMAIN fs[A].content :
          fs[A].content[i].kind = "py" /\ fs[A].content[i].arg = IMPORT_B

\* Python file A contains an import of module b (at the start of a line)
ContainsImportOfB(A) ==
    /\ A \in DOMAIN fs
    /\ Suffix(A) = DOT_PY
    /\ \E i \in DOMAIN fs[A].content :
          fs[A].content[i].kind = "py" /\ fs[A].content[i].arg = IMPORT_B

\* a get_related_files call has been answered
Answered == REPO \in DOMAIN GRAPH_CACHE /\ relQuery # <<>>

\* the repository of the scenario: a.py and b.py only, b.py imports nothing
ScenarioRepo == DOMAIN fs = {A_PY, B_PY} /\ fs[B_PY].content = <<>>

\* every import line of a.py is an import of b
ImportsOnlyB(A) == \A i \in DOMAIN fs[A].content : fs[A].content[i].arg = IMPORT_B

\* C8 (as amended): if Python file A is a node of the graph (not excluded by
\* name or path), can be read and has a line starting with `import b` or
\* `from b`, and b.py is a file of the root, then relatedFiles(b.py) contains
\* A and relatedFiles(A) contains b.py; when a.py and b.py are the only
\* files, a.py imports nothing but b and b.py imports nothing, the two
\* answers are exactly [a.py] and [b.py], each neighbour listed once.
C8_ImporterAndImportedRelated ==
    (Answered /\ B_PY \in DOMAIN fs) =>
        \A A \in PathUniverse :
            ScansImportOfB(A) =>
                /\ NormalizeQuery(relQuery) = B_PY => A \in Range(relResult)
                /\ NormalizeQuery(relQuery) = A => B_PY \in Range(relResult)
                /\ (A = A_PY /\ ScenarioRepo /\ ImportsOnlyB(A)) =>
                      /\ NormalizeQuery(relQuery) = B_PY => relResult = <<A_PY>>
                      /\ NormalizeQuery(relQuery) = A_PY => relResult = <<B_PY>>

\* C8 as stated: for every Python file A that contains an import of b.
C8_EveryImporterRelated ==
    (Answered /\ B_PY \in DOMAIN fs) =>
        \A A \in PathUniverse :
            ContainsImportOfB(A) =>
                /\ NormalizeQuery(relQuery) = B_PY => A \in Range(relResult)
                /\ NormalizeQuery(relQuery) = A => B_PY \in Range(relResult)
                /\ (A = A_PY /\ ScenarioRepo) =>
                      /\ NormalizeQuery(relQuery) = B_PY => relResult = <<A_PY>>
                      /\ NormalizeQuery(relQuery) = A_PY => relResult = <<B_PY>>

\* the scenario, a.py importing b twice, asked for b.py
C8_Witness ==
    /\ Answered
    /\ ScenarioRepo
    /\ ScansImportOfB(A_PY)
    /\ Len(fs[A_PY].content) = 2
    /\ ImportsOnlyB(A_PY)
    /\ relQuery = B_PY
    /\ relResult = <<A_PY>>

\* the graph of the root is memoized
Memoized == REPO \in DOMAIN GRAPH_CACHE

\* no walk of the tree as it is now gives the memoized adjacency
Stale == \A order \in WalkOrders(fs) : Adjacency(fs, order) # GRAPH_CACHE[REPO]

\* C19: the graph of a root is built by the first query only: it is memoized
\* from the tree as it is then, every answer is read from the memoized
\* adjacency, and once memoized the adjacency is never rebuilt, changed or
\* evicted, whatever files are added, deleted or edited.
C19_GraphBuiltOnce ==
    /\ [](relQuery # <<>> =>
            /\ Memoized
            /\ relResult \in RelatedLists(GRAPH_CACHE[REPO], NormalizeQuery(relQuery)))
    /\ [][ /\ Memoized => (Memoized' /\ GRAPH_CACHE'[REPO] = GRAPH_CACHE[REPO])
           /\ (~Memoized /\ Memoized') =>
                 \E order \in WalkOrders(fs) : GRAPH_CACHE'[REPO] = Adjacency(fs, order) ]_vars

\* b.py is answered as related to a.py from the memoized graph, although
\* a.py has been deleted and b.py no longer imports anything
C19_Witness ==
    /\ Memoized
    /\ Stale
    /\ relQuery = A_PY
    /\ relResult = <<B_PY>>
    /\ A_PY \notin DOMAIN fs
    /\ B_PY \in DOMAIN fs
    /\ fs[B_PY].content = <<>>

\* the paths the builder guesses for the imports of a file (graph.py lines 57-58, 76, 80-85)
ImportCandidates(A) ==
    IF A \notin DOMAIN fs THEN {}
    ELSE LET args(kind) == { fs[A].content[i].arg :
                               i \in { j \in DOMAIN fs[A].content : fs[A].content[j].kind = kind } }
         IN  IF Suffix(A) = DOT_PY
             THEN UNION { { ReplaceChar(m, ".", "/") \o DOT_PY,
                            ReplaceChar(m, ".", "/") \o INIT_PY } : m \in args("py") }
             ELSE IF Suffix(A) \in { DOT_TS, DOT_TSX, DOT_JS, DOT_JSX }
             THEN UNION { { SubSeq(m, LastIndexOf(m, "/") + 1, Len(m)) \o e :
                              e \in { DOT_TS, DOT_TSX, DOT_JS } } :
                          m \in { a \in args("js") : Head(a) = "." } }
             ELSE {}

\* id is the candidate, or ends with "/" followed by the candidate
FullSegments(id, cand) ==
    \/ id = cand
    \/ /\ Len(id) > Len(cand)
       /\ SubSeq(id, Len(id) - Len(cand) + 1, Len(id)) = cand
       /\ id[Len(id) - Len(cand)] = "/"

\* an edge from A to B is justified by an import of A
EdgeFromImport(A, B) == \E cand \in ImportCandidates(A) : FullSegments(B, cand)

\* C26: every edge of the graph comes from an import candidate of its source, and its
\* target is the candidate path or ends with "/" and the candidate path; a node whose last
\* segment only contains the candidate (ab.py for b.py, xc.ts for c.ts) is not linked
C26_EdgesOnFullSegment ==
    Memoized =>
        /\ \A A \in DOMAIN Adj : \A B \in Range(Adj[A]) :
               EdgeFromImport(A, B) \/ EdgeFromImport(B, A)
        /\ \A order \in WalkOrders(fs) :
               LET links == BuildKnowledgeGraph(fs, order).links
               IN  \A i \in DOMAIN links : EdgeFromImport(links[i].source, links[i].target)

\* a.py imports b beside ab.py and b.py: the edge goes to b.py, ab.py has no edge
C26_Witness ==
    /\ Memoized
    /\ {A_PY, B_PY, AB_PY} \subseteq DOMAIN fs
    /\ fs[A_PY].content = << [kind |-> "py", arg |-> IMPORT_B] >>
    /\ Adj[A_PY] = <<B_PY>>
    /\ Adj[AB_PY] = <<>>
    /\ relQuery = AB_PY
    /\ relResult = <<>>

-----------------------------------------------------------------------------
(* Retrieval claims *)

RECURSIVE SumCost(_, _)
\* the total estimated cost of a list of chunks
SumCost(chunks, tik) ==
    IF chunks = <<>> THEN 0 ELSE ChunkCost(Head(chunks), tik) + SumCost(Tail(chunks), tik)

\* retrieve has returned a list
Returned == ret.status = "returned"

\* the first chunk of the deduplicated sequence that was left out
NextExcluded == ret.unique[Len(ret.packed) + 1]

\* the call packed at least one chunk and left at least one out
PackedAndExcluded == Returned /\ ret.packed # <<>> /\ Len(ret.unique) > Len(ret.packed)

C2_NextChunkDoesNotFit ==
    PackedAndExcluded =>
        /\ ret.packed = SubSeq(ret.unique, 1, Len(ret.packed))
        /\ SumCost(ret.packed, ret.tik) + ChunkCost(NextExcluded, ret.tik) > ret.max_tokens

\* C2 as stated: the last packed chunk removed and the next excluded chunk
\* added, the total exceeds tokenBudget.
C2_SwapExceedsBudget ==
    PackedAndExcluded =>
        SumCost(SubSeq(ret.packed, 1, Len(ret.packed) - 1), ret.tik)
            + ChunkCost(NextExcluded, ret.tik) > ret.max_tokens

\* a call that packed one chunk and left out a chunk that alone would fit
C2_Witness ==
    /\ PackedAndExcluded
    /\ ~ret.tik
    /\ ChunkCost(NextExcluded, ret.tik) <= ret.max_tokens

\* the index has zero chunks or a vector table of size zero
ZeroChunksOrZeroSizeTable ==
    Len(idx.chunks) = 0 \/ idx.embeddings.shape[1] * idx.embeddings.shape[2] = 0

\* C10: retrieve on an empty index (no chunks, or a vector table without
\* elements) returns the empty list, raises nothing and consults neither the
\* embedding model nor the re-ranker, the graph or the external store.
C10_EmptyIndexEmptyResult ==
    (ZeroChunksOrZeroSizeTable /\ ret # NoResult) =>
        /\ Returned
        /\ ret.packed = <<>>
        /\ ret.calls = {}
        /\ ~MODEL /\ ~RANKER
        /\ REPO \notin DOMAIN GRAPH_CACHE
        /\ store = StoreOf(idx)

\* retrieve has answered for an index with a chunk and a (0, 0) vector table
C10_Witness ==
    /\ idx.chunks # <<>>
    /\ Size(idx.embeddings) = 0
    /\ Returned
    /\ ret.max_tokens > 0

\* the call raised because the embedding model could not be loaded
ModelFailed == ret.status = "raised" /\ ~MODEL

\* the index was built from exactly one chunk: one chunk, one vector
BuiltFromOneChunk == Len(idx.chunks) = 1 /\ Len(idx.embeddings.data) = 1

\* C11 as stated, read in its favour (a call that asks for at least one
\* chunk with a positive budget, searches in memory and finds the embedding
\* model): on an index built from exactly one chunk, retrieve returns a
\* non-empty sequence whose first element is that chunk.
C11_SingleChunkFirst ==
    (/\ BuiltFromOneChunk
     /\ ret # NoResult
     /\ ~ModelFailed
     /\ "collection" \notin ret.calls
     /\ ret.top_k >= 1
     /\ ret.max_tokens > 0) =>
        /\ Returned
        /\ ret.packed # <<>>
        /\ ret.packed[1] = idx.chunks[1]

\* the call searched the vectors in memory with the embedding model loaded,
\* asked for at least one chunk and had the budget for the estimated cost of
\* the one chunk of the index
FindsTheOneChunk ==
    /\ BuiltFromOneChunk
    /\ ret # NoResult
    /\ ~ModelFailed
    /\ "collection" \notin ret.calls
    /\ ret.top_k >= 1
    /\ \E tik \in BOOLEAN :
          /\ ret.status = "returned" => tik = ret.tik
          /\ ChunkCost(idx.chunks[1], tik) <= ret.max_tokens

\* C11 (as amended): on an index built from exactly one chunk, a retrieve
\* call with top_k >= 1 that searches the vectors in memory, finds the
\* embedding model and has a tokenBudget of at least the estimated cost of
\* the chunk returns exactly that chunk, whatever the query.
C11_SingleChunkWithinBudget ==
    FindsTheOneChunk => (Returned /\ ret.packed = <<idx.chunks[1]>>)

\* the one chunk came back, its cost estimated by tiktoken, the graph asked
C11_Witness ==
    /\ FindsTheOneChunk
    /\ Returned
    /\ ret.tik
    /\ "graph" \in ret.calls
    /\ ret.packed = <<idx.chunks[1]>>

\* the files related to the files of the first GRAPH_TOP re-ranked chunks
RelatedToTop ==
    LET top == PySlice(ret.ranked, 0, GRAPH_TOP)
    IN  UNION { Neighbors(GRAPH_CACHE[REPO], NormalizeQuery(top[i].path)) : i \in DOMAIN top }

\* retrieve returned, and it asked the graph
Expanded == ret.status = "returned" /\ "graph" \in ret.calls

\* C20: when retrieve is given a repoRoot, every chunk of the index whose path
\* is related to the file of one of the top 3 re-ranked chunks, and which is
\* not itself among the re-ranked chunks, is in the prioritized sequence that
\* is packed; so is a chunk of a related file of which another chunk is among
\* the re-ranked chunks.
C20_RelatedChunksAppended ==
    Expanded =>
        \A i \in DOMAIN idx.chunks :
            (idx.chunks[i].path \in RelatedToTop /\ idx.chunks[i] \notin Range(ret.ranked))
                => idx.chunks[i] \in Range(ret.unique)

\* the identity of a chunk
Id(c) == <<c.path, c.start_line>>

\* no two chunks of a sequence have the same identity
DistinctIds(chunks) ==
    \A i, j \in DOMAIN chunks : i # j => Id(chunks[i]) # Id(chunks[j])

\* the first chunk of the re-ranked candidates that has the identity of c
FirstRanked(c) ==
    ret.ranked[CHOOSE i \in DOMAIN ret.ranked :
                  /\ Id(ret.ranked[i]) = Id(c)
                  /\ \A j \in 1..(i - 1) : Id(ret.ranked[j]) # Id(c)]

\* c has the identity of a re-ranked candidate
FromRanking(c) == \E i \in DOMAIN ret.ranked : Id(ret.ranked[i]) = Id(c)

\* C21: the sequence retrieve returns never holds two chunks with the same
\* (path, start_line); of the chunks of one identity the first is the one
\* kept; and the chunks from vector search and re-ranking come before the
\* chunks that graph expansion added.
C21_FirstOccurrenceKept ==
    Returned =>
        /\ DistinctIds(ret.unique)
        /\ DistinctIds(ret.packed)
        /\ \A i \in DOMAIN ret.ranked : \E k \in DOMAIN ret.unique :
              Id(ret.unique[k]) = Id(ret.ranked[i])
        /\ \A k \in DOMAIN ret.unique :
              FromRanking(ret.unique[k]) => ret.unique[k] = FirstRanked(ret.unique[k])
        /\ \A k, l \in DOMAIN ret.unique :
              (k < l /\ FromRanking(ret.unique[l])) => FromRanking(ret.unique[k])

\* two re-ranked candidates had the same identity, the second was dropped and
\* the first returned
C21_Witness ==
    /\ Returned
    /\ ~DistinctIds(ret.ranked)
    /\ Len(ret.unique) < Len(ret.ranked)
    /\ ret.packed # <<>>

\* retrieve searched the embeddings array, and did not re-rank
BroadOrderKept == Returned /\ "collection" \notin ret.calls /\ "ranker" \notin ret.calls

\* the position in the index of a chunk of the index
IndexOf(c) == CHOOSE i \in DOMAIN idx.chunks : idx.chunks[i] = c

\* the similarity score of the chunk at position i
Score(i) == Dot(idx.embeddings.data[i], ret.query_embedding)

\* C22: on the in-memory path the broad recall selects min(topK x 5, number
\* of chunks) chunks, none scored lower than an unselected chunk, in
\* descending order of score, chunks of equal score in index order.
C22_BroadRecallStable ==
    BroadOrderKept =>
        LET pos == [k \in DOMAIN ret.ranked |-> IndexOf(ret.ranked[k])]
            selected == { pos[k] : k \in DOMAIN pos }
        IN  /\ Len(pos) = Min(ret.top_k * BROAD_FACTOR, Len(idx.chunks))
            /\ Cardinality(selected) = Len(pos)
            /\ \A i \in selected, j \in DOMAIN idx.chunks \ selected : Score(i) >= Score(j)
            /\ \A k, l \in DOMAIN pos :
                  k < l => \/ Score(pos[k]) > Score(pos[l])
                           \/ (Score(pos[k]) = Score(pos[l]) /\ pos[k] < pos[l])

\* the first n chunks of the deduplicated sequence
Prefix(n) == SubSeq(ret.unique, 1, n)

\* C23: retrieve returns the longest prefix of the deduplicated sequence whose
\* cumulative estimated cost is at most tokenBudget: it stops at the first
\* chunk that does not fit, whatever follows; and each returned chunk is a
\* chunk of the index, with its path, line range and whole text.
C23_LongestPrefixPacked ==
    Returned =>
        /\ \E n \in 0..Len(ret.unique) :
              /\ ret.packed = Prefix(n)
              /\ \A m \in 0..Len(ret.unique) :
                    SumCost(Prefix(m), ret.tik) <= ret.max_tokens <=> m <= n
        /\ \A k \in DOMAIN ret.packed : ret.packed[k] \in Range(idx.chunks)

\* the first chunk is too large for the budget, a later one alone would fit,
\* and nothing is returned
C23_Witness ==
    /\ Returned
    /\ ret.max_tokens > 0
    /\ ret.unique # <<>>
    /\ ChunkCost(ret.unique[1], ret.tik) > ret.max_tokens
    /\ \E k \in DOMAIN ret.unique : ChunkCost(ret.unique[k], ret.tik) <= ret.max_tokens
    /\ ret.packed = <<>>

\* seq holds the broad candidates in the order of descending score
SortedCandidates(seq, broad, scores) ==
    \E p \in Perms(DOMAIN broad) :
        /\ seq = [i \in DOMAIN broad |-> broad[p[i]]]
        /\ \A i, j \in DOMAIN broad : i < j => scores[p[i]] >= scores[p[j]]

\* C27: when the re-ranker cannot be loaded retrieve goes on without it and the list that
\* enters expansion, deduplication and packing is the broad list in its order; when the
\* re-ranker is there, it is the broad candidates sorted by descending re-rank score
C27_RankerFallback ==
    ret.status = "returned" /\ ret.calls # {} =>
        /\ "ranker" \notin ret.calls => (~RANKER /\ ret.ranked = ret.broad)
        /\ "ranker" \in ret.calls =>
              (RANKER /\ SortedCandidates(ret.ranked, ret.broad, ret.scores))
        /\ \E k \in 0..Len(ret.ranked) : SubSeq(ret.unique, 1, k) = Dedupe(ret.ranked, {})

\* the re-ranker could not be loaded and the five candidates go on in broad order
C27_Witness ==
    /\ ret.status = "returned"
    /\ ~RANKER
    /\ "model" \in ret.calls
    /\ "ranker" \notin ret.calls
    /\ Len(ret.broad) = 5
    /\ ret.ranked = ret.broad
    /\ SubSeq(ret.unique, 1, 5) = ret.broad
    /\ ret.packed # <<>>

-----------------------------------------------------------------------------
(* Index cache claims *)

\* the last two cache calls are a save and then a load for the same repo_url
SaveThenLoad ==
    /\ Len(cacheLog) = 2
    /\ cacheLog[1].op = "save"
    /\ cacheLog[2].op = "load"
    /\ cacheLog[1].repo_url = cacheLog[2].repo_url

\* C9: save followed by load with the same repository root, repository
\* identity and configuration returns an index whose chunk sequence (path,
\* start_line, end_line, text, in order) and vector table equal those of the
\* index that was saved.
C9_SaveLoadRoundTrip ==
    SaveThenLoad =>
        /\ cacheLog[2].result.found
        /\ cacheLog[2].result.index.chunks = cacheLog[1].index.chunks
        /\ cacheLog[2].result.index.embeddings = cacheLog[1].index.embeddings

\* a saved index with two chunks, one holding a quote and a backslash, one
\* ending on a two-digit line, has been loaded back
C9_Witness ==
    /\ SaveThenLoad
    /\ cacheLog[2].result.found
    /\ Len(cacheLog[1].index.chunks) = 2
    /\ \E i \in DOMAIN cacheLog[1].index.chunks :
          cacheLog[1].index.chunks[i].text = TEXT3
    /\ \E i \in DOMAIN cacheLog[1].index.chunks :
          cacheLog[1].index.chunks[i].end_line >= Len(Digits)

\* the last cache call was a load_index that returned an index
Loaded ==
    /\ cacheLog # <<>>
    /\ cacheLog[Len(cacheLog)].op = "load"
    /\ cacheLog[Len(cacheLog)].result.found

LoadedIndex == cacheLog[Len(cacheLog)].result.index

\* C14: every index load returns has as many chunks as vectors; an entry
\* that is missing or only partially written (a save stopped between the
\* metadata file and the vector file) makes load return absent.
C14_LoadedIndexConsistent ==
    Loaded => Len(LoadedIndex.chunks) = Len(LoadedIndex.embeddings.data)

\* save_index raised in one of the logged calls
SaveRaised ==
    \E i \in DOMAIN cacheLog : cacheLog[i].op = "save" /\ cacheLog[i].raised

\* retrieve ran for an index that names a collection without the collection
\* being opened, and the embedding model was there
RetrievedWithoutStore ==
    /\ ret # NoResult
    /\ HasCollection(idx)
    /\ "collection" \notin ret.calls
    /\ ~ModelFailed

\* C15: with an external store that is configured but unavailable, save and
\* retrieve complete without raising, retrieve with the result of the search
\* in memory.
C15_StoreFailureTolerated ==
    /\ ~SaveRaised
    /\ RetrievedWithoutStore => Returned

\* C16: save, load and retrieve leave every field of the index passed to
\* them (chunks, vectors, collection name and location) as it was before the
\* call.
C16_IndexNeverMutated ==
    [][(cacheLog' # cacheLog \/ ret' # ret) => idx' = idx]_vars

\* C25: once save_index has upserted an index, the collection of its fingerprint holds the
\* ids 0..len(chunks)-1 of that index and no other, each with the vector at that position
C25_StoreHoldsLastSave ==
    LET last == cacheLog[Len(cacheLog)]
        name == CollectionName(CacheKey(REPO, last.repo_url))
        ids == 0..(Len(last.index.chunks) - 1)
    IN  (/\ cacheLog # <<>>
         /\ last.op = "save"
         /\ ~last.raised
         /\ chromadb
         /\ last.index.chunks # <<>>)
        => /\ name \in DOMAIN store
           /\ DOMAIN store[name] = ids
           /\ \A i \in ids : store[name][i] = last.index.embeddings.data[i + 1]

-----------------------------------------------------------------------------
(* Lazily initialised handle claims *)

\* C24: under every interleaving of concurrent first uses, the embedding model, the ranker and
\* the graph of a repository root are each constructed once, and every caller is given that
\* one object
C24_ConstructedOnce ==
    \A h \in Handles :
        /\ nmade[h] <= 1
        /\ \A a, b \in given : (a[1] = h /\ b[1] = h) => a[2] = b[2]

-----------------------------------------------------------------------------
(* Chunk build claims *)

\* the files that failed in the build_chunks call: on stat, or on read
FailedInBuild ==
    buildOut.failing \cup { p \in DOMAIN buildOut.tree : ~buildOut.tree[p].readable }

\* the chunks the build returned for one file
ChunksFor(p) == SelectSeq(buildOut.chunks, LAMBDA c : c.path = p)

\* what a file contributes to a build in which it does not fail
OwnChunks(tree, p) ==
    IF IsWalked(p) /\ StatSize(tree[p]) <= MAX_FILE_SIZE_BYTES
    THEN ChunksOfFile(p, FileText(tree[p]), 200, 40)
    ELSE <<>>

\* the tree in which file f has no line
WithoutLinesOf(tree, f) ==
    [p \in DOMAIN tree |->
        IF p = f THEN [content |-> <<>>, readable |-> TRUE] ELSE tree[p]]

\* C17: when exactly one file fails while it is sized or read, build_chunks
\* still returns, with no chunk of that file and with the chunks every other
\* file gives on its own; and the graph that is built has the edges of the
\* other files only.
C17_OneFailingFileSkipped ==
    /\ (buildOut.status # "none" /\ Cardinality(FailedInBuild) = 1) =>
          /\ buildOut.status = "returned"
          /\ \A f \in FailedInBuild : ChunksFor(f) = <<>>
          /\ \A p \in DOMAIN buildOut.tree \ FailedInBuild :
                ChunksFor(p) = OwnChunks(buildOut.tree, p)
    /\ \A f \in DOMAIN fs :
          (REPO \in DOMAIN GRAPH_CACHE /\ ~fs[f].readable) =>
              \E order \in WalkOrders(fs) :
                  GRAPH_CACHE[REPO] = Adjacency(WithoutLinesOf(fs, f), order)

\* C28: whatever is loaded, built and saved on one repository root, no chunk of the built
\* index has a path inside the cache directory
C28_CacheNeverChunked ==
    \A i \in DOMAIN idx.chunks : ~StartsWith(idx.chunks[i].path, CACHE_REL \o <<"/">>)

-----------------------------------------------------------------------------
(* Ingest claims *)

\* no request thread is between the clone and its last store
IngestQuiet == \A t \in Threads : ingest[t].pc = "idle"

\* the three fields are empty, or are the text, the directory and the URL of one clone
FieldsOfOneRequest ==
    \/ current_repo_content = <<>> /\ current_repo = <<>> /\ current_repo_url = <<>>
    \/ /\ current_repo \in DOMAIN clones
       /\ clones[current_repo].repo_url = current_repo_url
       /\ clones[current_repo].packed_content = current_repo_content

\* C29: in every reachable state, whatever /ingest requests run and however they interleave,
\* current_repo_content, current_repo and current_repo_url come from one successful request
\* or are all empty, and a failed request changes none of them
C29_IngestFieldsConsistent ==
    /\ []FieldsOfOneRequest
    /\ [][ (\E t \in Threads :
              /\ ingest'[t] # ingest[t]
              /\ ingest'[t].pc = "idle"
              /\ ingest'[t].status = 500)
           => UNCHANGED <<current_repo_content, current_repo, current_repo_url>> ]_vars

-----------------------------------------------------------------------------
(* Editor claims *)

\* the resolved target of a request: joined with the root, normalised, links
\* resolved
Target(tree, file_path) == RealPath(tree, <<>>, AbsPath(PathJoin(REPO_DIR, file_path)))

\* the resolved repository root
RootReal(tree) == RealPath(tree, <<>>, AbsPath(REPO_DIR))

\* p is root, or below it
Within(root, p) == Len(p) >= Len(root) /\ SubSeq(p, 1, Len(root)) = root

\* nothing that is not the root or below it is created or changed
OutsideUntouched(before, after) ==
    \A p \in DOMAIN before \cup DOMAIN after :
        ~Within(RootReal(before), p) =>
            (p \in DOMAIN before /\ p \in DOMAIN after /\ after[p] = before[p])

\* a request for a target that is not inside is refused, and changes nothing
RefusedOutside(before, after, res) ==
    ~Within(RootReal(before), Target(before, res.file_path)) =>
        /\ res.raised = "ValueError"
        /\ res.status \in {400, 403}
        /\ after = before

\* the target holds the content of the request
TargetHasContent(before, after, res) ==
    LET t == Target(before, res.file_path)
    IN  IsFile(after, t) /\ after[t].content = res.content

-----------------------------------------------------------------------------
(* Chat context claims *)

\* C30: the paths get_chat_response reads back from the formatted context are the paths of
\* the chunks format_chunks was given, whatever the paths and texts hold: none is lost and
\* none is added
C30_KnownPathsAreChunkPaths ==
    answer.status = "returned" =>
        valid_filenames = { snippets[i].path : i \in DOMAIN snippets }

-----------------------------------------------------------------------------
(* Provenance validator claims *)

Validated == answer.status = "returned"

\* the diagram blocks of a text: what follows each opening fence
DiagramBlocks(t) == Tail(SplitOn(t, MERMAID_FENCE))

\* the content of a block: up to its closing fence, all of it without one
BlockContent(block) ==
    IF Contains(block, FENCE) THEN SplitOnce(block, FENCE)[1] ELSE block

\* the file-path labels of a block that are not in knownPaths
UnknownLabels(block) ==
    { l \in Range(Labels(BlockContent(block))) : l \notin valid_filenames }

\* the block of the output carries a fabrication warning
HasFabricationWarning(outblock) == WARN_FILES \in Range(outblock)

\* the fabrication warning of the block names the label
WarningNames(outblock, label) ==
    /\ HasFabricationWarning(outblock)
    /\ Contains(SubSeq(outblock, FirstIndex(outblock, <<WARN_FILES>>), Len(outblock)), label)

\* C12: each diagram block with a file-path label that is not in knownPaths
\* is annotated with a fabrication warning naming that label, and a block
\* whose file-path labels are all in knownPaths gets no fabrication warning.
C12_UnknownLabelsWarned ==
    Validated =>
        \A i \in DOMAIN DiagramBlocks(response) :
            LET block == DiagramBlocks(response)[i]
                outblock == DiagramBlocks(answer.text)[i]
            IN  IF UnknownLabels(block) # {}
                THEN \A l \in UnknownLabels(block) : WarningNames(outblock, l)
                ELSE ~HasFabricationWarning(outblock)

RECURSIVE DeleteWarnings(_)
\* the text without the warnings validate inserts
DeleteWarnings(t) ==
    IF t = <<>> THEN <<>>
    ELSE IF StartsWith(t, SyntaxWarning) THEN DeleteWarnings(SubSeq(t, Len(SyntaxWarning) + 1, Len(t)))
    ELSE IF StartsWith(t, <<"\n", "\n", WARN_FILES>>)
    THEN DeleteWarnings(SubSeq(t, FirstIndex(t, <<WARN_TAIL, "\n">>) + 2, Len(t)))
    ELSE <<Head(t)>> \o DeleteWarnings(Tail(t))

\* C13: validate only adds warning text: deleting the inserted warnings from
\* the output gives back the input exactly, also for a block with no closing
\* fence and for a text without a diagram block.
C13_OnlyWarningsAdded == Validated => DeleteWarnings(answer.text) = response

=============================================================================
